---- MODULE Spec2Model ----
(***************************************************************************)
(* Verification model of the SEO backend (ushabmusha/seo).                 *)
(*                                                                         *)
(*   scorer/scoring.py      clamp, compute_subscores, compute_overall_score*)
(*   analyzer/api.py        analyze, analyze_and_score                     *)
(*   generator/llm_client.py  _mock_generate, _call_openai_chat,           *)
(*                            generate_from_prompt                         *)
(*   monitor/jobs.py        _load_urls, _save_urls, set_watch_urls,        *)
(*                          get_watch_urls, monitor_once                   *)
(*   main.py                _start_scheduler, _shutdown_scheduler,         *)
(*                          monitor endpoints                              *)
(*   scorer/features.py     extract_features                               *)
(*   scorer/train_model.py  build_dataset, rows_to_matrix, train_and_save  *)
(*   scorer/api.py          _load_model, predict_score                     *)
(*   competitor/api.py      compare_pages                                  *)
(*                                                                         *)
(* Numbers: a score s of the code is held as the integer s * 10000 (unit   *)
(* U = 0.0001), so every product with the weights 0.5, 0.3, 0.2, 0.35,     *)
(* 0.30, 0.55, 0.10, 0.25 is exact; round(x, 2) yields hundredths.         *)
(* Strings: a Python str is a sequence of tokens; the token " " is a       *)
(* whitespace character, every other token is one non-blank character or   *)
(* one literal chunk of the source.                                        *)
(***************************************************************************)
EXTENDS Integers, Sequences, FiniteSets, TLC

VARIABLES
    features,       \* scorer: the features dict handed to compute_overall_score
    score_out,      \* scorer: its return value
    req,            \* analyzer: the AnalyzeRequest body
    fetch_result,   \* analyzer: what fetch_html(req.url) does for this request
    textstat,       \* analyzer: what the textstat library does for its text
    scoring_raises, \* analyzer: whether compute_overall_score raises for it
    resp_analyze,   \* analyzer: response of POST /api/analyze/
    resp_score,     \* analyzer: response of POST /api/analyze/score/
    gen_in,         \* generator: prompt, kind, SDK availability, key, SDK behaviour
    gen_out,        \* generator: outcome of generate_from_prompt
    urls_file,      \* monitor: monitor/urls.json
    sched,          \* main: the BackgroundScheduler
    ret,            \* main/monitor: the last operation and what it returned
    last_saved,     \* monitor: return value of the latest set_watch_urls
    startups,       \* main: the number of startup events so far, up to MaxStartups
    model_file,     \* scorer: scorer/model.joblib
    _loaded,        \* scorer: the module global _loaded of scorer/api.py
    _feature_keys,  \* scorer: the module global _feature_keys of scorer/api.py
    loaded_from,    \* scorer: the contents of model.joblib that _loaded was read from
    pred_req,       \* scorer: the payload of POST /predict/ and what the libraries do for it
    pred_resp,      \* scorer: the response of POST /predict/ and the stages it ran
    cmp_req,        \* competitor: the body of POST /compare/
    cmp_resp,       \* competitor: the response of POST /compare/
    writers         \* monitor: the set_watch_urls calls in progress, one per request thread

scoreVars == <<features, score_out>>
anaVars   == <<req, fetch_result, textstat, scoring_raises, resp_analyze, resp_score>>
genVars   == <<gen_in, gen_out>>
appVars   == <<urls_file, sched, ret, last_saved, startups>>
predVars  == <<model_file, _loaded, _feature_keys, loaded_from, pred_req, pred_resp>>
cmpVars   == <<cmp_req, cmp_resp>>
restVars  == <<predVars, cmpVars, writers>>
vars      == <<scoreVars, anaVars, genVars, appVars, restVars>>

None == [kind |-> "none"]

-----------------------------------------------------------------------------
(* Python str helpers *)

WS == " "

RECURSIVE LStrip(_)
LStrip(s) == IF s # <<>> /\ Head(s) = WS THEN LStrip(Tail(s)) ELSE s

RECURSIVE RStrip(_)
RStrip(s) ==
    IF s # <<>> /\ s[Len(s)] = WS THEN RStrip(SubSeq(s, 1, Len(s) - 1)) ELSE s

\* str.strip()
Strip(s) == RStrip(LStrip(s))

\* s[:n]
Take(s, n) == SubSeq(s, 1, IF Len(s) < n THEN Len(s) ELSE n)

\* "c" * n
Rep(c, n) == [i \in 1..n |-> c]

Max2(a, b) == IF a >= b THEN a ELSE b
Min2(a, b) == IF a <= b THEN a ELSE b

-----------------------------------------------------------------------------
(* scorer/scoring.py *)

\* faulty variant of clamp: the upper limit is not applied
clamp_nohi(x) == Max2(0, x)

\* clamp(x, 0.0, 100.0) on a value in units of U (100.0 is 1000000 U)
clamp(x) == Max2(0, Min2(1000000, x))

\* round(x, 2): x in units of U, result in hundredths, ties to even
Round2(x) ==
    LET q == x \div 100
        r == x % 100
    IN  IF r > 50 \/ (r = 50 /\ q % 2 = 1) THEN q + 1 ELSE q

\* str.lower() on a heading tag
Lower(tag) == IF tag = "H1" THEN "h1" ELSE IF tag = "H2" THEN "h2" ELSE tag

RECURSIVE CountH1(_)
CountH1(hs) ==
    IF hs = <<>> THEN 0
    ELSE (IF Lower(Head(hs).tag) = "h1" THEN 1 ELSE 0) + CountH1(Tail(hs))

\* float(readability.get("flesch", 0.0) or 0.0); a flesch value is
\* [k |-> "None"] or [k |-> "num", v |-> n]
FleschOf(f) == IF f.readability.flesch.k = "None" THEN 0 ELSE f.readability.flesch.v

\* int(features.get("word_count", 0)) raises TypeError on None
IntRaises(x) == x.k = "None"

Note(cond, tag) == IF cond THEN <<tag>> ELSE <<>>

compute_subscores(f) ==
    LET word_count    == f.word_count.v
        title_len     == Len(Strip(f.title))
        meta_len      == Len(Strip(f.meta_description))
        images_missing == f.images_missing_alt
        links_count   == f.links_count
        flesch        == FleschOf(f)
        wc_score      == IF word_count >= 1200 THEN 100
                         ELSE IF word_count >= 700 THEN 85
                         ELSE IF word_count >= 300 THEN 65
                         ELSE IF word_count >= 150 THEN 40
                         ELSE 10
        read_score    == IF flesch >= 60 THEN 100
                         ELSE IF flesch >= 40 THEN 70
                         ELSE 40
        h1_count      == CountH1(f.headings)
        h_score       == IF h1_count >= 1 THEN 100 ELSE 40
        content_score == wc_score * 5000 + read_score * 3000 + h_score * 2000
        schema_score  == IF f.has_schema THEN 100 ELSE 60
        img_score     == IF images_missing = 0 THEN 100
                         ELSE Max2(20, 100 - images_missing * 10)
        link_score    == IF links_count >= 3 THEN 100
                         ELSE IF links_count >= 1 THEN 50 ELSE 20
        technical_score == schema_score * 3500 + img_score * 3500 + link_score * 3000
        title_score   == IF 40 <= title_len /\ title_len <= 70 THEN 100
                         ELSE IF title_len > 70 THEN 60
                         ELSE IF title_len >= 20 THEN 70
                         ELSE 30
        meta_score    == IF 50 <= meta_len /\ meta_len <= 160 THEN 100
                         ELSE IF meta_len > 160 THEN 60
                         ELSE IF meta_len >= 30 THEN 70
                         ELSE 20
        onpage_score  == title_score * 5500 + meta_score * 3500 + h_score * 1000
        notes == Note(word_count < 150, "short_content")
                 \o Note(flesch < 40, "low_readability")
                 \o Note(h1_count = 0, "missing_h1")
                 \o Note(~f.has_schema, "no_schema")
                 \o Note(images_missing > 0, "images_missing_alt")
                 \o Note(title_len > 70, "title_long")
                 \o Note(title_len < 20, "title_short")
                 \o Note(meta_len > 160, "meta_long")
                 \o Note(meta_len < 30, "meta_short")
    IN  [content   |-> clamp(content_score),
         technical |-> clamp(technical_score),
         onpage    |-> clamp(onpage_score),
         notes     |-> notes]

\* faulty variant of weights: a retuned technical weight
weights_retuned == [content |-> 50, technical |-> 30, onpage |-> 25]

\* weights = {"content": 0.5, "technical": 0.25, "onpage": 0.25}, in hundredths
weights == [content |-> 50, technical |-> 25, onpage |-> 25]

compute_overall_score(f) ==
    LET s       == compute_subscores(f)
        overall == (s.content * weights.content
                    + s.technical * weights.technical
                    + s.onpage * weights.onpage) \div 100
    IN  [overall_score |-> Round2(clamp(overall)),
         breakdown     |-> [content   |-> Round2(s.content),
                            technical |-> Round2(s.technical),
                            onpage    |-> Round2(s.onpage)],
         weights       |-> weights,
         notes         |-> s.notes]

\* a call of compute_overall_score: its return value, or the exception
ScoreCall(f) ==
    IF IntRaises(f.word_count)
    THEN [kind |-> "raised", error |-> "TypeError"]
    ELSE [kind |-> "ok", result |-> compute_overall_score(f)]

-----------------------------------------------------------------------------
(* Inputs of the scorer *)

\* a "very large" count; it stays small enough for the products of the
\* scores to fit the model checker's 32-bit integers
HugeCount   == 2000
MaxHeadings == 1

Num(n) == [k |-> "num", v |-> n]
NoneVal == [k |-> "None", v |-> 0]

RECURSIVE SeqsUpTo(_, _)
SeqsUpTo(S, n) ==
    IF n = 0 THEN {<<>>}
    ELSE LET shorter == SeqsUpTo(S, n - 1)
         IN  shorter \cup {Append(q, x) : q \in shorter, x \in S}

WordCounts    == {Num(n) : n \in {-HugeCount, 149, 150, 700, 1199, 1200, HugeCount}}
                     \cup {NoneVal}
FleschValues  == {Num(n) : n \in {39, 40, 60}} \cup {NoneVal}
HeadingTags   == {"h1", "H1", "h2"}
HeadingLists  == SeqsUpTo({[tag |-> t] : t \in HeadingTags}, MaxHeadings)
MissingValues == {-HugeCount, -1, 0, 1, 8, HugeCount}
LinkValues    == {-HugeCount, 0, 1, 3}
Titles        == {Rep("t", n) : n \in {0, 20, 40, 71}}
                     \cup {<<WS>> \o Rep("t", 39) \o <<WS>>}
Metas         == {Rep("m", n) : n \in {0, 30, 50, 161}}
                     \cup {<<WS>> \o Rep("m", 49) \o <<WS>>}

FeatureInputs ==
    [word_count : WordCounts, title : Titles, meta_description : Metas,
     headings : HeadingLists, images_missing_alt : MissingValues,
     links_count : LinkValues, has_schema : BOOLEAN,
     readability : [flesch : FleschValues]]

-----------------------------------------------------------------------------
(* analyzer/extractor.py, analyzer/features.py                             *)
(*                                                                         *)
(* An HTML string is the sequence of its elements, as the parser yields    *)
(* them: [el, has, s] with el the tag, s the text content (title, h1..h6,  *)
(* p, script) or the attribute value (meta: content, img: alt, a: href)    *)
(* and has telling whether that attribute is present. The empty string is  *)
(* the empty sequence. In text, a word is a maximal run of tokens other    *)
(* than " " and ".".                                                       *)

El(tag, has, s) == [el |-> tag, has |-> has, s |-> s]

Str(s) == [k |-> "str", s |-> s]
NoneStr == [k |-> "None", s |-> <<>>]

\* truth value of an Optional[str]
Truthy(o) == o.k = "str" /\ o.s # <<>>

HeadingEls == {"h1", "h2"}

\* re.sub(r"\s+", " ", text).strip()
RECURSIVE Collapse(_)
Collapse(s) ==
    IF Len(s) < 2 THEN s
    ELSE IF s[1] = WS /\ s[2] = WS THEN Collapse(Tail(s))
    ELSE <<Head(s)>> \o Collapse(Tail(s))

RECURSIVE GetText(_)
GetText(html) ==
    IF html = <<>> THEN <<>>
    ELSE LET e == Head(html)
             own == IF e.el \in {"title", "p"} \cup HeadingEls THEN e.s ELSE <<>>
         IN  own \o <<WS>> \o GetText(Tail(html))

\* extract_text_from_html
extract_text_from_html(html) == Strip(Collapse(GetText(html)))

RECURSIVE Find(_, _)
\* soup.find(tag): the first element with that tag, as a sequence of 0 or 1
Find(html, tag) ==
    IF html = <<>> THEN <<>>
    ELSE IF Head(html).el = tag THEN <<Head(html)>>
    ELSE Find(Tail(html), tag)

RECURSIVE FindAll(_, _)
FindAll(html, tags) ==
    IF html = <<>> THEN <<>>
    ELSE (IF Head(html).el \in tags THEN <<Head(html)>> ELSE <<>>)
         \o FindAll(Tail(html), tags)

\* urljoin(base_url, href): an absolute href is kept, a relative one is
\* resolved against the base
urljoin(base, href) ==
    IF href # <<>> /\ Head(href) = "http://" THEN href ELSE base \o href

extract_meta_and_headings(html, base_url) ==
    LET t  == Find(html, "title")
        md == Find(html, "meta")
        title == IF t # <<>> /\ t[1].s # <<>> THEN Strip(t[1].s) ELSE <<>>
        meta_desc == IF md # <<>> /\ md[1].has /\ md[1].s # <<>>
                     THEN Strip(md[1].s) ELSE <<>>
        hs == FindAll(html, HeadingEls)
        headings == [i \in 1..Len(hs) |->
                        [tag |-> hs[i].el, text |-> Strip(hs[i].s)]]
        imgs == FindAll(html, {"img"})
        MissingAlt(e) == ~e.has \/ e.s = <<>>
        HasHref(e) == e.el = "a" /\ e.has
        as == SelectSeq(html, HasHref)
        links == [i \in 1..Len(as) |->
                     IF Truthy(base_url) THEN urljoin(base_url.s, as[i].s)
                     ELSE as[i].s]
    IN  [title |-> title,
         meta_description |-> meta_desc,
         headings |-> headings,
         images_total |-> Len(imgs),
         images_missing_alt |-> Len(SelectSeq(imgs, MissingAlt)),
         links_count |-> Len(links),
         has_schema |-> FindAll(html, {"script_ldjson"}) # <<>>]

\* top_keywords_from_text: the extractor (YAKE or the frequency fallback) is
\* kept as an uninterpreted function of the stripped text
top_keywords_from_text(text, max_keywords) ==
    IF Strip(text) = <<>> THEN <<>>
    ELSE <<[fn |-> "top_keywords", text |-> Strip(text), top |-> max_keywords]>>

IsWord(tok) == tok \notin {WS, "."}
IsStop(tok) == tok = "."

\* len(re.findall(r"\w+", text)): the number of maximal runs of word tokens
WordRuns(q) ==
    Cardinality({i \in 1..Len(q) : IsWord(q[i]) /\ (i = 1 \/ ~IsWord(q[i - 1]))})

\* len(re.split(r"[.!?]+", text)): one more than the number of runs of stops
SplitCount(q) ==
    1 + Cardinality({i \in 1..Len(q) : IsStop(q[i]) /\ (i = 1 \/ ~IsStop(q[i - 1]))})

\* readability_scores: ts is what the textstat library does for this text,
\* [k |-> "raises"] or its answers [k |-> "ok", fre, fk, wc, sc]
readability_scores(text, ts) ==
    IF Strip(text) = <<>>
    THEN [flesch_reading_ease |-> Num(0), flesch_kincaid_grade |-> Num(0),
          word_count |-> Num(0), sentence_count |-> 0]
    ELSE IF ts.k = "raises"
    THEN [flesch_reading_ease |-> Num(0), flesch_kincaid_grade |-> Num(0),
          word_count |-> Num(WordRuns(Strip(text))),
          sentence_count |-> Max2(1, SplitCount(Strip(text)))]
    ELSE [flesch_reading_ease |-> Num(ts.fre), flesch_kincaid_grade |-> Num(ts.fk),
          word_count |-> Num(ts.wc), sentence_count |-> ts.sc]

-----------------------------------------------------------------------------
(* analyzer/api.py                                                         *)
(*                                                                         *)
(* A handler's outcome is [status, detail, body, fetched, html]: the HTTP  *)
(* status, the HTTPException detail, the returned JSON, whether fetch_html *)
(* was called and the handler's local variable html.                       *)

HttpError(code, detail, fetched) ==
    [status |-> code, detail |-> detail, body |-> None, fetched |-> fetched,
     html |-> <<>>]

HttpOk(body, fetched, html) ==
    [status |-> 200, detail |-> "", body |-> body, fetched |-> fetched,
     html |-> html]

Rec(name, n) == [rec |-> name, n |-> n]

\* f"<html><body><p>{text}</p></body></html>"
WrapText(text) == <<El("p", FALSE, text)>>

\* the outcome of a handler's input selection
Selected(html, fetched) == [status |-> 200, detail |-> "", fetched |-> fetched, html |-> html]
Rejected(detail, fetched) == [status |-> 400, detail |-> detail, fetched |-> fetched, html |-> <<>>]

\* faulty variant of analyze_input: html is preferred over url
analyze_input_html_first(r, fetch) ==
    IF Truthy(r.html) THEN Selected(r.html.s, FALSE)
    ELSE IF Truthy(r.url)
    THEN (IF fetch.k = "raise" THEN Rejected("Failed to fetch URL", TRUE)
          ELSE Selected(fetch.html, TRUE))
    ELSE IF Truthy(r.text) THEN Selected(WrapText(r.text.s), FALSE)
    ELSE Rejected("Provide url or html or text", FALSE)

\* analyze, lines 22-33: url, then html, then text
analyze_input(r, fetch) ==
    IF Truthy(r.url)
    THEN (IF fetch.k = "raise" THEN Rejected("Failed to fetch URL", TRUE)
          ELSE Selected(fetch.html, TRUE))
    ELSE IF Truthy(r.html) THEN Selected(r.html.s, FALSE)
    ELSE IF Truthy(r.text) THEN Selected(WrapText(r.text.s), FALSE)
    ELSE Rejected("Provide url or html or text", FALSE)

\* analyze, lines 44-52: the rules-based recommendations
analyze_recs(meta, read_scores) ==
    Note(Len(meta.meta_description) < 50, Rec("meta_short", 0))
    \o Note(Len(meta.title) < 30, Rec("title_short", 0))
    \o Note(read_scores.word_count.v < 200, Rec("content_short", 0))
    \o Note(meta.images_missing_alt > 0,
            Rec("images_missing_alt", meta.images_missing_alt))

\* analyze(req): POST /api/analyze/
analyze(r, fetch, ts) ==
    LET in == analyze_input(r, fetch)
        html == in.html
        meta == extract_meta_and_headings(html, r.url)
        text == extract_text_from_html(html)
        keywords == top_keywords_from_text(text, 12)
        read_scores == readability_scores(text, ts)
        recs == analyze_recs(meta, read_scores)
        result == [title |-> meta.title,
                   meta_description |-> meta.meta_description,
                   headings |-> meta.headings,
                   images_total |-> meta.images_total,
                   images_missing_alt |-> meta.images_missing_alt,
                   links_count |-> meta.links_count,
                   has_schema |-> meta.has_schema,
                   word_count |-> read_scores.word_count,
                   sentence_count |-> read_scores.sentence_count,
                   readability |-> [flesch |-> read_scores.flesch_reading_ease,
                                    fk_grade |-> read_scores.flesch_kincaid_grade],
                   top_keywords |-> keywords,
                   recommendations |-> recs]
    IN  IF in.status # 200 THEN HttpError(in.status, in.detail, in.fetched)
        ELSE HttpOk(result, in.fetched, html)

\* analyze_and_score, lines 85-96: url, then html, then text
score_input(r, fetch) ==
    IF Truthy(r.url)
    THEN (IF fetch.k = "raise" THEN Rejected("Failed to fetch URL", TRUE)
          ELSE Selected(fetch.html, TRUE))
    ELSE IF Truthy(r.html) THEN Selected(r.html.s, FALSE)
    ELSE IF Truthy(r.text) THEN Selected(WrapText(r.text.s), FALSE)
    ELSE Rejected("Provide url or html or text", FALSE)

\* faulty variant of score_recs: the title rule uses the scorer's limit of 20
score_recs_title20(feats) ==
    Note(Len(feats.meta_description) < 50, Rec("meta_short", 0))
    \o Note(Len(feats.title) < 20, Rec("title_short", 0))
    \o Note(feats.word_count.v < 200, Rec("content_short", 0))
    \o Note(feats.images_missing_alt > 0,
            Rec("images_missing_alt", feats.images_missing_alt))

\* analyze_and_score, lines 123-131: the recommendations, from the features
score_recs(feats) ==
    Note(Len(feats.meta_description) < 50, Rec("meta_short", 0))
    \o Note(Len(feats.title) < 30, Rec("title_short", 0))
    \o Note(feats.word_count.v < 200, Rec("content_short", 0))
    \o Note(feats.images_missing_alt > 0,
            Rec("images_missing_alt", feats.images_missing_alt))

\* analyze_and_score, lines 98-133: the features dict, recommendations added
score_features(html, r, ts) ==
    LET meta == extract_meta_and_headings(html, r.url)
        text == extract_text_from_html(html)
        keywords == top_keywords_from_text(text, 12)
        read_scores == readability_scores(text, ts)
        feats == [title |-> meta.title,
                  meta_description |-> meta.meta_description,
                  headings |-> meta.headings,
                  images_total |-> meta.images_total,
                  images_missing_alt |-> meta.images_missing_alt,
                  links_count |-> meta.links_count,
                  has_schema |-> meta.has_schema,
                  word_count |-> read_scores.word_count,
                  sentence_count |-> read_scores.sentence_count,
                  readability |-> [flesch |-> read_scores.flesch_reading_ease,
                                   fk_grade |-> read_scores.flesch_kincaid_grade],
                  top_keywords |-> keywords]
        recs == score_recs(feats)
    IN  [title |-> feats.title,
         meta_description |-> feats.meta_description,
         headings |-> feats.headings,
         images_total |-> feats.images_total,
         images_missing_alt |-> feats.images_missing_alt,
         links_count |-> feats.links_count,
         has_schema |-> feats.has_schema,
         word_count |-> feats.word_count,
         sentence_count |-> feats.sentence_count,
         readability |-> feats.readability,
         top_keywords |-> feats.top_keywords,
         recommendations |-> recs]

\* the call of compute_overall_score inside analyze_and_score; raises tells
\* whether an Exception escapes it (whatever its cause)
ScorerCall(f, raises) ==
    IF raises THEN [kind |-> "raised", error |-> "Exception"] ELSE ScoreCall(f)

\* faulty variant of analyze_and_score: no try/except around the scorer, so its
\* exception reaches the framework and becomes HTTP 500
analyze_and_score_no_try(r, fetch, ts, raises) ==
    LET in == score_input(r, fetch)
        full == score_features(in.html, r, ts)
        call == ScorerCall(full, raises)
    IN  IF in.status # 200 THEN HttpError(in.status, in.detail, in.fetched)
        ELSE IF call.kind = "raised"
        THEN HttpError(500, "Internal Server Error", in.fetched)
        ELSE HttpOk([features |-> full, score |-> call.result], in.fetched, in.html)

\* analyze_and_score(req): POST /api/analyze/score/
analyze_and_score(r, fetch, ts, raises) ==
    LET in == score_input(r, fetch)
        full == score_features(in.html, r, ts)
        call == ScorerCall(full, raises)
        score_result == IF call.kind = "raised"
                        THEN [error |-> <<"Scoring failed: ", call.error>>]
                        ELSE call.result
    IN  IF in.status # 200 THEN HttpError(in.status, in.detail, in.fetched)
        ELSE HttpOk([features |-> full, score |-> score_result], in.fetched, in.html)

-----------------------------------------------------------------------------
(* generator/llm_client.py                                                 *)
(*                                                                         *)
(* A call's outcome is [kind, value, calls]: kind "returned" with the str  *)
(* value, or "raised" with the exception's name as value; calls lists the  *)
(* OpenAI API calls made, in order.                                        *)

Returned(v, calls) == [kind |-> "returned", type |-> "str", value |-> v, calls |-> calls]
Raised(e, calls)   == [kind |-> "raised", type |-> "exception", value |-> <<e>>, calls |-> calls]

\* _mock_generate(prompt, kind); each literal of the source is one token,
\* the article's fixed paragraphs are the token "demo article body"
_mock_generate(prompt, kind) ==
    LET p == Strip(prompt)
    IN  IF kind = "title"
        THEN (IF Len(p) > 60 THEN Take(p, 60) \o <<"...">> ELSE p)
             \o <<" - SEO Optimized Title">>
        ELSE IF kind = "meta"
        THEN (IF Len(p) > 140 THEN Take(p, 140) \o <<"...">> ELSE p)
             \o <<" - concise meta description for SEO.">>
        ELSE IF kind = "article"
        THEN <<"Intro: ">> \o Strip(Take(p, 80)) \o <<"\n\n", "demo article body">>
        ELSE <<"[MOCK OUTPUT] ">> \o Take(p, 200)

\* lines 71-99: the old-style attempt, openai.ChatCompletion.create and the
\* reading of its response. o is what the SDK does: [k, content, err].
\* Yields [done, value, last_err_old].
OldStyle(o) ==
    IF o.k \in {"message", "text", "dict"}
    THEN [done |-> TRUE, value |-> Strip(o.content), last_err_old |-> "None"]
    ELSE IF o.k = "raises"
    THEN [done |-> FALSE, value |-> <<>>, last_err_old |-> o.err]
    ELSE IF o.k = "message_none"
    THEN [done |-> FALSE, value |-> <<>>, last_err_old |-> "AttributeError"]
    ELSE [done |-> FALSE, value |-> <<>>, last_err_old |-> "None"]

\* lines 102-143: the new-style attempt, OpenAI().chat.completions.create.
\* n is what the SDK does. Yields [raised, value, e_new].
NewStyle(n) ==
    IF n.k = "no_client"
    THEN [raised |-> TRUE, value |-> <<>>, e_new |-> "RuntimeError", called |-> FALSE]
    ELSE IF n.k = "raises"
    THEN [raised |-> TRUE, value |-> <<>>, e_new |-> n.err, called |-> TRUE]
    ELSE IF n.k = "message_object"
    THEN [raised |-> TRUE, value |-> <<>>, e_new |-> "AttributeError", called |-> TRUE]
    ELSE IF n.k \in {"message", "dict"}
    THEN [raised |-> FALSE, value |-> Strip(n.content), e_new |-> "None", called |-> TRUE]
    ELSE [raised |-> FALSE, value |-> <<"str(resp)">>, e_new |-> "None", called |-> TRUE]

\* line 147: the error line that precedes the mock text
LlmErrorPrefix(last_err_old, e_new) ==
    <<"[LLM ERROR] old_api_error=", last_err_old, " new_api_error=", e_new, "\n\n">>

\* faulty variant of _call_openai_chat: when both styles fail the error is raised
_call_openai_chat_reraise(g) ==
    IF ~g.available \/ ~Truthy(g.key)
    THEN Raised("RuntimeError", <<>>)
    ELSE LET old == OldStyle(g.old)
             new == NewStyle(g.new)
             calls == <<"old">> \o (IF new.called THEN <<"new">> ELSE <<>>)
         IN  IF old.done THEN Returned(old.value, <<"old">>)
             ELSE IF new.raised THEN Raised(new.e_new, calls)
             ELSE Returned(new.value, calls)

\* _call_openai_chat(prompt, kind, ...): g holds prompt, kind, the module
\* globals _OPENAI_AVAILABLE and OPENAI_API_KEY, and the SDK's behaviour
_call_openai_chat(g) ==
    IF ~g.available \/ ~Truthy(g.key)
    THEN Raised("RuntimeError", <<>>)
    ELSE LET old == OldStyle(g.old)
             new == NewStyle(g.new)
             calls == <<"old">> \o (IF new.called THEN <<"new">> ELSE <<>>)
         IN  IF old.done THEN Returned(old.value, <<"old">>)
             ELSE IF new.raised
             THEN Returned(LlmErrorPrefix(old.last_err_old, new.e_new)
                           \o _mock_generate(g.prompt, g.kind), calls)
             ELSE Returned(new.value, calls)

\* faulty variant of generate_from_prompt: the fallback forgets to pass kind
generate_from_prompt_generic(g) ==
    IF g.available /\ Truthy(g.key)
    THEN LET c == _call_openai_chat(g)
         IN  IF c.kind = "raised"
             THEN Returned(_mock_generate(g.prompt, "generic"), c.calls)
             ELSE c
    ELSE Returned(_mock_generate(g.prompt, "generic"), <<>>)

\* generate_from_prompt(prompt, kind, ...)
generate_from_prompt(g) ==
    IF g.available /\ Truthy(g.key)
    THEN LET c == _call_openai_chat(g)
         IN  IF c.kind = "raised"
             THEN Returned(_mock_generate(g.prompt, g.kind), c.calls)
             ELSE c
    ELSE Returned(_mock_generate(g.prompt, g.kind), <<>>)

-----------------------------------------------------------------------------
(* monitor/jobs.py                                                         *)
(*                                                                         *)
(* A JSON value of the urls list is [k, s]: k its Python type ("str",      *)
(* "int", "list") and s the text of a str. monitor/urls.json is            *)
(* [exists, text], text being the sequence of JSON tokens written so far.  *)

DEFAULT_URLS == <<Str(<<"https://example.com">>)>>

Tok(t, v) == [tok |-> t, val |-> v]
Punct(t) == Tok(t, NoneStr)

NoFile == [exists |-> FALSE, text |-> <<>>]

\* json.dump(urls, f, indent=2)
json_dump(urls) ==
    <<Punct("[")>>
    \o [i \in 1..(2 * Len(urls) - 1) |->
           IF i % 2 = 1 THEN Tok("item", urls[(i + 1) \div 2]) ELSE Punct(",")]
    \o <<Punct("]")>>

\* json.load(f): [ok, data]; ok is FALSE when the text is not a JSON list
json_load(text) ==
    LET n == Len(text)
        inner == SubSeq(text, 2, n - 1)
        wellFormed ==
            /\ n >= 2
            /\ text[1] = Punct("[") /\ text[n] = Punct("]")
            /\ (Len(inner) = 0 \/ Len(inner) % 2 = 1)
            /\ \A i \in 1..Len(inner) :
                  IF i % 2 = 1 THEN inner[i].tok = "item" ELSE inner[i] = Punct(",")
    IN  IF wellFormed
        THEN [ok |-> TRUE,
              data |-> [j \in 1..((Len(inner) + 1) \div 2) |-> inner[2 * j - 1].val]]
        ELSE [ok |-> FALSE, data |-> <<>>]

_load_urls(file) ==
    IF ~file.exists THEN DEFAULT_URLS
    ELSE LET r == json_load(file.text)
         IN  IF r.ok /\ r.data # <<>> THEN r.data ELSE DEFAULT_URLS

_save_urls(urls) == [exists |-> TRUE, text |-> json_dump(urls)]

\* isinstance(u, str) and u.strip()
KeepUrl(u) == u.k = "str" /\ Strip(u.s) # <<>>

\* faulty variant of CleanUrls: the kept entries are stripped
RECURSIVE CleanUrlsStripped(_)
CleanUrlsStripped(urls) ==
    IF urls = <<>> THEN <<>>
    ELSE (IF KeepUrl(Head(urls)) THEN <<Str(Strip(Head(urls).s))>> ELSE <<>>)
         \o CleanUrlsStripped(Tail(urls))

\* [u for u in urls if isinstance(u, str) and u.strip()]
RECURSIVE CleanUrls(_)
CleanUrls(urls) ==
    IF urls = <<>> THEN <<>>
    ELSE (IF KeepUrl(Head(urls)) THEN <<Head(urls)>> ELSE <<>>)
         \o CleanUrls(Tail(urls))

\* set_watch_urls(urls): [cleaned, file], the return value and the file
set_watch_urls(urls) ==
    LET kept == CleanUrls(urls)
        cleaned == IF kept = <<>> THEN DEFAULT_URLS ELSE kept
    IN  [cleaned |-> cleaned, file |-> _save_urls(cleaned)]

get_watch_urls(file) == _load_urls(file)

\* What the two HTTP calls made for one URL do: the POST to /api/analyze/
\* fails (network error, non-2xx status, body that is not JSON), the POST to
\* /api/score/predict/ fails, or both succeed
FailOutcomes == {"analyze_network", "analyze_bad_json", "predict_status"}
OkOutcomes == {"ok"}
Outcomes == FailOutcomes \cup OkOutcomes

\* lines 48-72: the entry recorded for one URL
UrlEntry(u, out) ==
    IF out \in FailOutcomes THEN [error |-> <<out>>]
    ELSE [analyze |-> [title |-> <<"Title of ">> \o u.s, top_keywords |-> <<>>],
          score |-> Num(73)]

\* results[url] = ...
Put(f, key, v) == [x \in (DOMAIN f) \cup {key} |-> IF x = key THEN v ELSE f[x]]

\* a dict key must be hashable
Hashable(u) == u.k # "list"

\* faulty variant of MonitorLoop: no try/except, the first failure is raised
RECURSIVE MonitorLoopNoExcept(_, _, _)
MonitorLoopNoExcept(urls, outs, results) ==
    IF urls = <<>> THEN [kind |-> "returned", value |-> results]
    ELSE IF ~Hashable(Head(urls)) THEN [kind |-> "raised", value |-> results]
    ELSE IF Head(outs) \in FailOutcomes THEN [kind |-> "raised", value |-> results]
    ELSE MonitorLoopNoExcept(Tail(urls), Tail(outs),
                             Put(results, Head(urls), UrlEntry(Head(urls), Head(outs))))

\* lines 47-72: the loop over the watch list; outs[i] is what the HTTP
\* calls for the i-th URL do. An unhashable entry raises TypeError inside
\* the try and again inside the except clause, which ends the call.
RECURSIVE MonitorLoop(_, _, _)
MonitorLoop(urls, outs, results) ==
    IF urls = <<>> THEN [kind |-> "returned", value |-> results]
    ELSE IF ~Hashable(Head(urls)) THEN [kind |-> "raised", value |-> results]
    ELSE MonitorLoop(Tail(urls), Tail(outs),
                     Put(results, Head(urls), UrlEntry(Head(urls), Head(outs))))

EmptyDict == [x \in {} |-> NoneStr]

\* monitor_once(): [kind, value]
monitor_once(file, outs) == MonitorLoop(_load_urls(file), outs, EmptyDict)

-----------------------------------------------------------------------------
(* main.py: the scheduler. BackgroundScheduler (APScheduler 3) keeps the   *)
(* jobs added before start() in a pending list and moves them to its       *)
(* in-memory job store on start(); get_jobs() lists the pending jobs while *)
(* stopped and the stored jobs while running; start() on a running         *)
(* scheduler raises SchedulerAlreadyRunningError; shutdown() on a stopped  *)
(* one raises SchedulerNotRunningError, and on a running one it stops it   *)
(* and shuts the job stores down, which empties the in-memory store.       *)

NewScheduler == [state |-> "stopped", pending |-> <<>>, store |-> <<>>]

get_jobs(sc) == IF sc.state = "stopped" THEN sc.pending ELSE sc.store

InSeq(x, q) == \E i \in 1..Len(q) : q[i] = x

\* scheduler.add_job(monitor_once, "interval", minutes=30, id=id): [err, sc]
add_job(sc, id) ==
    IF sc.state = "stopped"
    THEN [err |-> "none", sc |-> [sc EXCEPT !.pending = Append(@, id)]]
    ELSE IF InSeq(id, sc.store) THEN [err |-> "ConflictingIdError", sc |-> sc]
    ELSE [err |-> "none", sc |-> [sc EXCEPT !.store = Append(@, id)]]

\* scheduler.start(): [err, sc]
start(sc) ==
    IF sc.state # "stopped" THEN [err |-> "SchedulerAlreadyRunningError", sc |-> sc]
    ELSE [err |-> "none",
          sc |-> [state |-> "running", pending |-> <<>>, store |-> sc.store \o sc.pending]]

\* scheduler.shutdown(wait=False): [err, sc]
shutdown(sc) ==
    IF sc.state = "stopped" THEN [err |-> "SchedulerNotRunningError", sc |-> sc]
    ELSE [err |-> "none", sc |-> [state |-> "stopped", pending |-> sc.pending, store |-> <<>>]]

\* _start_scheduler(): [err, sc, had_jobs, added]
_start_scheduler(sc) ==
    LET had == get_jobs(sc) # <<>>
        a   == IF had THEN [err |-> "none", sc |-> sc] ELSE add_job(sc, "seo-monitor")
        st  == start(a.sc)
    IN  IF a.err # "none"
        THEN [err |-> a.err, sc |-> a.sc, had_jobs |-> had, added |-> FALSE]
        ELSE [err |-> st.err, sc |-> st.sc, had_jobs |-> had, added |-> ~had]

\* faulty variant of _shutdown_scheduler: shutdown() is called whatever the state
_shutdown_scheduler_unguarded(sc) ==
    LET r == shutdown(sc)
    IN  [err |-> r.err, sc |-> r.sc, was_running |-> sc.state = "running",
         called |-> TRUE]

\* _shutdown_scheduler(): [err, sc, was_running, called]
_shutdown_scheduler(sc) ==
    IF sc.state = "running"
    THEN LET r == shutdown(sc)
         IN  [err |-> r.err, sc |-> r.sc, was_running |-> TRUE, called |-> TRUE]
    ELSE [err |-> "none", sc |-> sc, was_running |-> FALSE, called |-> FALSE]

-----------------------------------------------------------------------------
(* Each specification below runs one component; the variables of the       *)
(* other components keep their idle values.                                *)

NoOp == [op |-> "none", kind |-> "none", arg |-> <<>>, value |-> <<>>]

-----------------------------------------------------------------------------
(* Specification of the scorer: any features dict, then one call *)

ScoreInit ==
    /\ features \in FeatureInputs
    /\ score_out = None
    /\ req = None /\ fetch_result = None /\ textstat = None
    /\ scoring_raises = FALSE /\ resp_analyze = None /\ resp_score = None
    /\ gen_in = None /\ gen_out = None
    /\ urls_file = None /\ sched = None /\ ret = NoOp
    /\ last_saved = None /\ startups = 0
    /\ model_file = None /\ _loaded = None /\ _feature_keys = None
    /\ loaded_from = None /\ pred_req = None /\ pred_resp = None
    /\ cmp_req = None /\ cmp_resp = None /\ writers = None

Score ==
    /\ score_out = None
    /\ score_out' = ScoreCall(features)
    /\ UNCHANGED <<features, anaVars, genVars, appVars, restVars>>

SpecScore ==
    /\ ScoreInit
    /\ [][Score]_vars

\* a score in hundredths lies in the closed range 0..100
InRange(h) == 0 <= h /\ h <= 10000

\* C1: whenever compute_overall_score returns, overall_score and the three
\* breakdown sub-scores lie in the closed range 0..100, also for negative
\* or very large images_missing_alt, links_count and word_count.
C1_ScoresInRange ==
    score_out.kind = "ok" =>
        /\ InRange(score_out.result.overall_score)
        /\ InRange(score_out.result.breakdown.content)
        /\ InRange(score_out.result.breakdown.technical)
        /\ InRange(score_out.result.breakdown.onpage)

\* C1 witness: a negative images_missing_alt drives img_score far above 100
\* and the returned technical sub-score is the clamped 100.
C1_Witness ==
    /\ score_out.kind = "ok"
    /\ features.images_missing_alt = -HugeCount
    /\ features.word_count.v = HugeCount
    /\ score_out.result.breakdown.technical = 10000

\* the weighted sum 0.5*content + 0.25*technical + 0.25*onpage of the
\* returned sub-scores (hundredths), in units of 0.0001
WeightedSum(b) == b.content * 50 + b.technical * 25 + b.onpage * 25

\* C2: overall_score is the clamped weighted sum 0.5*content +
\* 0.25*technical + 0.25*onpage of the three clamped sub-scores, rounded to
\* 2 decimals, and the reported weights are the fixed {0.5, 0.25, 0.25},
\* which sum to 1.
C2_WeightedSum ==
    score_out.kind = "ok" =>
        LET r == score_out.result
            w == WeightedSum(r.breakdown)
            c == IF w < 0 THEN 0 ELSE IF w > 1000000 THEN 1000000 ELSE w
            h == c \div 100
            rounded == IF c % 100 > 50 \/ (c % 100 = 50 /\ h % 2 = 1)
                       THEN h + 1 ELSE h
        IN  /\ r.overall_score = rounded
            /\ r.weights = [content |-> 50, technical |-> 25, onpage |-> 25]
            /\ r.weights.content + r.weights.technical + r.weights.onpage = 100

\* C2 witness: a returned score whose weighted sum falls exactly between
\* two hundredths, so the rounding decides the result.
C2_Witness ==
    /\ score_out.kind = "ok"
    /\ WeightedSum(score_out.result.breakdown) % 100 = 50
    /\ score_out.result.overall_score \notin {0, 10000}

-----------------------------------------------------------------------------
(* Specification of the analyzer: one request, the behaviour of the        *)
(* network and of the libraries for it, and the two handlers               *)

PageRich ==
    << El("title", FALSE, Rep("t", 30)),
       El("meta", TRUE, Rep("m", 50)),
       El("h1", FALSE, <<"Guide">>),
       El("img", TRUE, <<"photo">>),
       El("a", TRUE, <<"http://", "site">>),
       El("script_ldjson", FALSE, <<"{}">>),
       El("p", FALSE, <<"good", WS, WS, "words", ".">>) >>

PagePoor ==
    << El("title", FALSE, <<WS>> \o Rep("t", 29)),
       El("meta", TRUE, Rep("m", 49) \o <<WS>>),
       El("h2", FALSE, <<"Sub">>),
       El("img", FALSE, <<>>),
       El("img", TRUE, <<>>),
       El("a", FALSE, <<>>),
       El("a", TRUE, <<"/about">>),
       El("script", FALSE, <<"js">>),
       El("p", FALSE, <<"few", ".", WS, "words">>) >>

ReqUrls  == {NoneStr, Str(<<>>), Str(<<"http://", "page">>)}
ReqHtmls == {NoneStr, Str(<<>>), Str(PagePoor)}
ReqTexts == {NoneStr, Str(<<>>), Str(<<WS>>), Str(<<"plain", WS, "text">>)}

FetchResults ==
    {[k |-> "raise", html |-> <<>>], [k |-> "ok", html |-> <<>>],
     [k |-> "ok", html |-> PageRich]}

TextstatResults ==
    {[k |-> "raises", fre |-> 0, fk |-> 0, wc |-> 0, sc |-> 0],
     [k |-> "ok", fre |-> 39, fk |-> 12, wc |-> 199, sc |-> 3],
     [k |-> "ok", fre |-> 60, fk |-> 5, wc |-> 200, sc |-> 9]}

AnaInit ==
    /\ req \in [url : ReqUrls, html : ReqHtmls, text : ReqTexts]
    /\ fetch_result \in FetchResults
    /\ textstat \in TextstatResults
    /\ scoring_raises \in BOOLEAN
    /\ resp_analyze = None
    /\ resp_score = None
    /\ features = None /\ score_out = None
    /\ gen_in = None /\ gen_out = None
    /\ urls_file = None /\ sched = None /\ ret = NoOp
    /\ last_saved = None /\ startups = 0
    /\ model_file = None /\ _loaded = None /\ _feature_keys = None
    /\ loaded_from = None /\ pred_req = None /\ pred_resp = None
    /\ cmp_req = None /\ cmp_resp = None /\ writers = None

Analyze ==
    /\ resp_analyze = None
    /\ resp_analyze' = analyze(req, fetch_result, textstat)
    /\ UNCHANGED <<req, fetch_result, textstat, scoring_raises, resp_score>>
    /\ UNCHANGED <<scoreVars, genVars, appVars, restVars>>

AnalyzeAndScore ==
    /\ resp_score = None
    /\ resp_score' = analyze_and_score(req, fetch_result, textstat, scoring_raises)
    /\ UNCHANGED <<req, fetch_result, textstat, scoring_raises, resp_analyze>>
    /\ UNCHANGED <<scoreVars, genVars, appVars, restVars>>

SpecAnalyze ==
    /\ AnaInit
    /\ [][Analyze \/ AnalyzeAndScore]_vars

\* the input order url, html, text, read off a handler's outcome
InputOrder(R) ==
    IF Truthy(req.url)
    THEN /\ R.fetched
         /\ IF fetch_result.k = "raise"
            THEN R.status = 400 /\ R.detail = "Failed to fetch URL"
            ELSE R.status = 200 /\ R.html = fetch_result.html
    ELSE /\ ~R.fetched
         /\ IF Truthy(req.html) THEN R.status = 200 /\ R.html = req.html.s
            ELSE IF Truthy(req.text)
            THEN R.status = 200 /\ R.html = <<El("p", FALSE, req.text.s)>>
            ELSE R.status = 400 /\ R.detail = "Provide url or html or text"

\* C3: the analyze handler (and its copy in analyze_and_score) takes a
\* non-empty url and fetches it, ignoring html and text; uses html only when
\* url is empty; text only when url and html are empty; fails with HTTP 400
\* 'Provide url or html or text' when all three are absent or empty; and
\* fails with HTTP 400 on a failed fetch without falling back to html or text.
C3_InputOrder ==
    /\ resp_analyze # None => InputOrder(resp_analyze)
    /\ resp_score # None => InputOrder(resp_score)

\* C3 witness: url, html and text are all supplied, the fetch fails, and
\* analyze has answered 400.
C3_Witness ==
    /\ Truthy(req.url) /\ Truthy(req.html) /\ Truthy(req.text)
    /\ fetch_result.k = "raise"
    /\ resp_analyze # None /\ resp_analyze.status = 400

\* C4: for the same request and the same fetched HTML, the features object
\* of analyze_and_score equals the result of analyze key for key,
\* recommendations included, and both fail with the same HTTP 400 in the
\* same cases.
C4_SameFeatures ==
    (resp_analyze # None /\ resp_score # None) =>
        /\ resp_score.status = resp_analyze.status
        /\ resp_score.detail = resp_analyze.detail
        /\ resp_analyze.status = 200 =>
               /\ DOMAIN resp_score.body.features = DOMAIN resp_analyze.body
               /\ resp_score.body.features = resp_analyze.body

\* C4 witness: both handlers answered 200 for a page whose title of 29
\* characters and missing alt texts make every recommendation rule fire.
C4_Witness ==
    /\ resp_analyze # None /\ resp_score # None
    /\ resp_analyze.status = 200
    /\ Len(resp_analyze.body.title) = 29
    /\ Len(resp_analyze.body.recommendations) = 4

FeatureKeys ==
    {"title", "meta_description", "headings", "images_total",
     "images_missing_alt", "links_count", "has_schema", "word_count",
     "sentence_count", "readability", "top_keywords", "recommendations"}

\* the request selects an input: the handler gets as far as the scorer
InputAccepted ==
    \/ Truthy(req.url) /\ fetch_result.k = "ok"
    \/ ~Truthy(req.url) /\ (Truthy(req.html) \/ Truthy(req.text))

\* C5: when compute_overall_score raises inside analyze_and_score, the
\* handler still answers 200 with the full features object, the same one as
\* when the scorer does not raise, and score holds only an 'error' message.
C5_ScoringFailureContained ==
    (resp_score # None /\ scoring_raises /\ InputAccepted) =>
        /\ resp_score.status = 200
        /\ DOMAIN resp_score.body = {"features", "score"}
        /\ DOMAIN resp_score.body.score = {"error"}
        /\ DOMAIN resp_score.body.features = FeatureKeys
        /\ resp_score.body.features =
               analyze_and_score(req, fetch_result, textstat, FALSE).body.features

\* C5 witness: the scorer raised on a fetched page and the handler answered.
C5_Witness ==
    /\ resp_score # None /\ scoring_raises
    /\ Truthy(req.url) /\ fetch_result.html # <<>>
    /\ resp_score.status = 200
    /\ "error" \in DOMAIN resp_score.body.score

-----------------------------------------------------------------------------
(* Specification of the generator: a prompt, a kind, the module globals    *)
(* and the SDK's behaviour, then one call of generate_from_prompt          *)

Prompts ==
    {<<>>, <<WS, "topic", WS>>,
     Rep("x", 60), <<WS>> \o Rep("x", 61),
     Rep("x", 79) \o <<WS>> \o Rep("x", 62),
     Rep("x", 201)}

Kinds == {"title", "meta", "article", "generic", "summary"}

ApiKeys == {NoneStr, Str(<<>>), Str(<<"sk-key">>)}

OldBehaviours ==
    {[k |-> "raises", content |-> <<>>, err |-> "APIRemovedInV1"],
     [k |-> "message", content |-> <<WS, "Old", WS, "answer", WS>>, err |-> "None"],
     [k |-> "message_none", content |-> <<>>, err |-> "None"],
     [k |-> "text", content |-> <<"Old", WS, "text">>, err |-> "None"],
     [k |-> "dict", content |-> <<>>, err |-> "None"],
     [k |-> "no_choices", content |-> <<>>, err |-> "None"]}

NewBehaviours ==
    {[k |-> "no_client", content |-> <<>>, err |-> "None"],
     [k |-> "raises", content |-> <<>>, err |-> "RateLimitError"],
     [k |-> "message_object", content |-> <<"New", WS, "answer">>, err |-> "None"],
     [k |-> "message", content |-> <<"New", WS, "answer", WS>>, err |-> "None"],
     [k |-> "dict", content |-> <<>>, err |-> "None"],
     [k |-> "other", content |-> <<>>, err |-> "None"]}

GenInit ==
    /\ gen_in \in [prompt : Prompts, kind : Kinds, available : BOOLEAN,
                    key : ApiKeys, old : OldBehaviours, new : NewBehaviours]
    /\ gen_out = None
    /\ features = None /\ score_out = None
    /\ req = None /\ fetch_result = None /\ textstat = None
    /\ scoring_raises = FALSE /\ resp_analyze = None /\ resp_score = None
    /\ urls_file = None /\ sched = None /\ ret = NoOp
    /\ last_saved = None /\ startups = 0
    /\ model_file = None /\ _loaded = None /\ _feature_keys = None
    /\ loaded_from = None /\ pred_req = None /\ pred_resp = None
    /\ cmp_req = None /\ cmp_resp = None /\ writers = None

Generate ==
    /\ gen_out = None
    /\ gen_out' = generate_from_prompt(gen_in)
    /\ UNCHANGED <<gen_in, scoreVars, anaVars, appVars, restVars>>

SpecGen ==
    /\ GenInit
    /\ [][Generate]_vars

\* C6: generate_from_prompt never raises and always returns a string; when
\* the OpenAI SDK is not importable or OPENAI_API_KEY is unset it makes no
\* OpenAI call and returns exactly _mock_generate(prompt, kind).
C6_NeverRaises ==
    gen_out # None =>
        /\ gen_out.kind = "returned"
        /\ gen_out.type = "str"
        /\ (~gen_in.available \/ ~Truthy(gen_in.key)) =>
               /\ gen_out.calls = <<>>
               /\ gen_out.value = _mock_generate(gen_in.prompt, gen_in.kind)

\* C6 witness: the SDK is importable, the key is the empty string, and a
\* title was generated from a prompt longer than 60 characters.
C6_Witness ==
    /\ gen_out # None
    /\ gen_in.available /\ gen_in.key = Str(<<>>)
    /\ gen_in.kind = "title" /\ Len(Strip(gen_in.prompt)) > 60
    /\ gen_out.calls = <<>>

\* SDK and key are present and both the old-style and the new-style call raise
BothCallsRaise ==
    /\ gen_in.available /\ Truthy(gen_in.key)
    /\ gen_in.old.k = "raises" /\ gen_in.new.k = "raises"

-----------------------------------------------------------------------------
(* Specification of the application: startup and shutdown events, the      *)
(* scheduler's timer, and the three monitor endpoints, one at a time       *)

MaxUrls == 2
MaxStartups == 2

UrlEntries ==
    {Str(<<"http://a">>), Str(<<WS, "http://b">>), Str(<<WS>>), Str(<<>>),
     [k |-> "list", s |-> <<>>]}

UrlLists == SeqsUpTo(UrlEntries, MaxUrls)

Op(op, kind, arg, value) == [op |-> op, kind |-> kind, arg |-> arg, value |-> value]

AppInit ==
    /\ urls_file = NoFile
    /\ sched = NewScheduler
    /\ ret = NoOp
    /\ last_saved = None
    /\ startups = 0
    /\ features = None /\ score_out = None
    /\ req = None /\ fetch_result = None /\ textstat = None
    /\ scoring_raises = FALSE /\ resp_analyze = None /\ resp_score = None
    /\ gen_in = None /\ gen_out = None
    /\ model_file = None /\ _loaded = None /\ _feature_keys = None
    /\ loaded_from = None /\ pred_req = None /\ pred_resp = None
    /\ cmp_req = None /\ cmp_resp = None /\ writers = None

\* the application's startup event
Startup ==
    LET r == _start_scheduler(sched)
    IN  /\ sched' = r.sc
        /\ ret' = Op("startup", IF r.err = "none" THEN "returned" ELSE "raised",
                     <<>>, [err |-> r.err, had_jobs |-> r.had_jobs, added |-> r.added])
        /\ startups' = Min2(startups + 1, MaxStartups)
        /\ UNCHANGED <<urls_file, last_saved>>
        /\ UNCHANGED <<scoreVars, anaVars, genVars, restVars>>

\* the application's shutdown event
Shutdown ==
    LET r == _shutdown_scheduler(sched)
    IN  /\ sched' = r.sc
        /\ ret' = Op("shutdown", IF r.err = "none" THEN "returned" ELSE "raised",
                     <<>>, [err |-> r.err, was_running |-> r.was_running,
                            called |-> r.called])
        /\ UNCHANGED <<urls_file, last_saved, startups>>
        /\ UNCHANGED <<scoreVars, anaVars, genVars, restVars>>

\* the interval job 'seo-monitor' fires
TimerFire ==
    /\ sched.state = "running"
    /\ InSeq("seo-monitor", sched.store)
    /\ \E outs \in [1..Len(_load_urls(urls_file)) -> Outcomes] :
          LET r == monitor_once(urls_file, outs)
          IN  ret' = Op("timer", r.kind, outs, r.value)
    /\ UNCHANGED <<urls_file, sched, last_saved, startups>>
    /\ UNCHANGED <<scoreVars, anaVars, genVars, restVars>>

\* POST /monitor/run-now
MonitorRunNow ==
    /\ \E outs \in [1..Len(_load_urls(urls_file)) -> Outcomes] :
          LET r == monitor_once(urls_file, outs)
          IN  ret' = Op("run_now", r.kind, outs, r.value)
    /\ UNCHANGED <<urls_file, sched, last_saved, startups>>
    /\ UNCHANGED <<scoreVars, anaVars, genVars, restVars>>

\* GET /monitor/config
MonitorGetConfig ==
    /\ ret' = Op("get", "returned", <<>>, [urls |-> get_watch_urls(urls_file)])
    /\ UNCHANGED <<urls_file, sched, last_saved, startups>>
    /\ UNCHANGED <<scoreVars, anaVars, genVars, restVars>>

\* POST /monitor/config with payload {"urls": urls}
MonitorSetConfig ==
    \E urls \in UrlLists :
        LET r == set_watch_urls(urls)
        IN  /\ urls_file' = r.file
            /\ last_saved' = [kind |-> "list", value |-> r.cleaned]
            /\ ret' = Op("set", "returned", urls,
                         [saved_urls |-> r.cleaned, count |-> Len(r.cleaned)])
            /\ UNCHANGED <<sched, startups>>
            /\ UNCHANGED <<scoreVars, anaVars, genVars, restVars>>

AppNext ==
    \/ Startup
    \/ Shutdown
    \/ TimerFire
    \/ MonitorRunNow
    \/ MonitorGetConfig
    \/ MonitorSetConfig

SpecApp ==
    /\ AppInit
    /\ [][AppNext]_vars

\* a str with non-whitespace content
NonBlankStr(u) == u.k = "str" /\ \E i \in 1..Len(u.s) : u.s[i] # " "

\* C8: set_watch_urls(urls) keeps exactly the entries of urls that are
\* strings with non-whitespace content, unchanged and in their original
\* order, replaces an empty result by DEFAULT_URLS, persists that list and
\* returns it; a later get_watch_urls with no write in between returns the
\* same list; and set_watch_urls applied to its own result returns it again.
C8_SetThenGet ==
    /\ ret.op = "set" =>
          LET kept  == SelectSeq(ret.arg, NonBlankStr)
              saved == ret.value.saved_urls
          IN  /\ saved = IF kept = <<>> THEN <<Str(<<"https://example.com">>)>> ELSE kept
              /\ ret.value.count = Len(saved)
              /\ last_saved = [kind |-> "list", value |-> saved]
              /\ urls_file.exists
              /\ get_watch_urls(urls_file) = saved
              /\ set_watch_urls(saved).cleaned = saved
              /\ set_watch_urls(saved).file = urls_file
    /\ (ret.op = "get" /\ last_saved # None) => ret.value.urls = last_saved.value

\* C8 witness: a get_watch_urls after a set_watch_urls that kept two entries,
\* one of them with leading whitespace.
C8_Witness ==
    /\ ret.op = "get" /\ last_saved # None
    /\ ret.value.urls = <<Str(<<WS, "http://b">>), Str(<<"http://a">>)>>

\* the last position of the watch list that holds url u
LastIndex(q, u) == CHOOSE i \in 1..Len(q) : q[i] = u /\ \A j \in (i + 1)..Len(q) : q[j] # u

\* C9: monitor_once never raises; its result has exactly one entry per
\* distinct URL of the current watch list; each entry is either
\* {analyze, score} or {error}; and a failure for one URL is recorded as
\* that URL's error while every other URL is still processed.
C9_MonitorOnce ==
    ret.op \in {"run_now", "timer"} =>
        LET watch == get_watch_urls(urls_file)
            res   == ret.value
        IN  /\ ret.kind = "returned"
            /\ DOMAIN res = {watch[i] : i \in 1..Len(watch)}
            /\ \A u \in DOMAIN res :
                  /\ DOMAIN res[u] \in {{"analyze", "score"}, {"error"}}
                  /\ DOMAIN res[u] = {"error"}
                        <=> ret.arg[LastIndex(watch, u)] # "ok"

\* C9 witness: a run over two distinct URLs in which the first one failed
\* and the second one was still analyzed and scored.
C9_Witness ==
    /\ ret.op = "run_now" /\ ret.kind = "returned"
    /\ Len(ret.arg) = 2 /\ ret.arg[1] = "analyze_network" /\ ret.arg[2] = "ok"
    /\ Cardinality(DOMAIN ret.value) = 2

\* the jobs the scheduler holds, pending or stored
HeldJobs == sched.pending \o sched.store

AtMostOneJob ==
    /\ Len(HeldJobs) <= 1
    /\ \A i \in 1..Len(HeldJobs) : HeldJobs[i] = "seo-monitor"

StartupAddsOnlyWhenEmpty ==
    ret.op = "startup" => (ret.value.added => ~ret.value.had_jobs)

ShutdownOnlyWhenRunning ==
    ret.op = "shutdown" =>
        /\ ret.kind = "returned"
        /\ ret.value.called <=> ret.value.was_running
        /\ sched.state = "stopped"

\* C10 as claimed: at most one 'seo-monitor' job at any time, exactly one
\* at every time after the first startup, and shutdown stops the scheduler
\* only when it is running.
C10_Original_OneJobAfterStartup ==
    /\ AtMostOneJob
    /\ StartupAddsOnlyWhenEmpty
    /\ startups >= 1 => Len(HeldJobs) = 1
    /\ ShutdownOnlyWhenRunning

\* C10 amended: after any sequence of startup and shutdown events the
\* scheduler holds at most one 'seo-monitor' job (startup adds it only when
\* the scheduler has no jobs); it holds exactly one whenever it is running,
\* so after every startup, and none between a shutdown and the next startup,
\* because shutdown empties the in-memory job store; and shutdown stops the
\* scheduler only when it is running.
C10_OneJobWhileRunning ==
    /\ AtMostOneJob
    /\ StartupAddsOnlyWhenEmpty
    /\ sched.state = "running" => HeldJobs = <<"seo-monitor">>
    /\ (startups >= 1 /\ sched.state = "stopped") => HeldJobs = <<>>
    /\ ret.op = "startup" => sched.state = "running"
    /\ ShutdownOnlyWhenRunning

\* C10 witness: a second startup, after a shutdown, has added the job again
\* and the scheduler runs with exactly one job.
C10_Witness ==
    /\ ret.op = "startup" /\ ret.kind = "returned" /\ ret.value.added
    /\ startups = 2
    /\ sched.state = "running" /\ HeldJobs = <<"seo-monitor">>

-----------------------------------------------------------------------------
(* scorer/features.py                                                      *)
(*                                                                         *)
(* Python values of a JSON payload: one record shape for int, bool, None,  *)
(* str (a sequence of one-character tokens), list (a sequence of values)   *)
(* and float.  A float is held as the exact fraction n / d the code        *)
(* divides out; the code's double is the nearest one to it.  A dict is     *)
(* [k |-> "dict", d |-> function from key to value].                       *)

PInt(n)      == [k |-> "int", n |-> n, d |-> 1, s |-> <<>>]
PBool(b)     == [k |-> "bool", n |-> IF b THEN 1 ELSE 0, d |-> 1, s |-> <<>>]
PNone        == [k |-> "None", n |-> 0, d |-> 1, s |-> <<>>]
PStr(s)      == [k |-> "str", n |-> 0, d |-> 1, s |-> s]
PList(s)     == [k |-> "list", n |-> 0, d |-> 1, s |-> s]
PFloat(n, d) == [k |-> "float", n |-> n, d |-> d, s |-> <<>>]
PDict(d)     == [k |-> "dict", d |-> d]

\* {}
EmptyPDict == PDict([x \in {} |-> PNone])

\* d.get(key, default) of a dict d
Get(d, key, default) == IF key \in DOMAIN d.d THEN d.d[key] ELSE default

\* bool(v)
PTruthy(v) ==
    CASE v.k = "None" -> FALSE
      [] v.k \in {"int", "bool", "float"} -> v.n # 0
      [] v.k \in {"str", "list"} -> v.s # <<>>
      [] v.k = "dict" -> DOMAIN v.d # {}

\* int, bool and float take part in arithmetic; every other type raises
IsNumber(v) == v.k \in {"int", "bool", "float"}

\* the number of decimal digits of a natural number
RECURSIVE Digits(_)
Digits(n) == IF n < 10 THEN 1 ELSE 1 + Digits(n \div 10)

\* len(str(val)) and len(repr(val)): the length of the text Python prints
\* for an int, a bool, None, a str or a list of these
RECURSIVE StrLen(_), ReprLen(_), ListBodyLen(_)
StrLen(v) ==
    CASE v.k = "str" -> Len(v.s)
      [] v.k = "int" -> IF v.n < 0 THEN 1 + Digits(-v.n) ELSE Digits(v.n)
      [] v.k = "bool" -> IF v.n = 1 THEN 4 ELSE 5
      [] v.k = "None" -> 4
      [] v.k = "list" -> 2 + ListBodyLen(v.s)

ReprLen(v) == IF v.k = "str" THEN Len(v.s) + 2 ELSE StrLen(v)

ListBodyLen(s) ==
    IF s = <<>> THEN 0
    ELSE ReprLen(Head(s)) + (IF Len(s) > 1 THEN 2 + ListBodyLen(Tail(s)) ELSE 0)

\* safe_len
safe_len(val) == IF val.k = "None" THEN 0 ELSE StrLen(val)

\* a character of the class \w
IsW(c) == c \notin {" ", "\n", ".", "!", "?", ",", "-"}

\* str.lower() on one character
LowerCh(c) ==
    CASE c = "S" -> "s" [] c = "E" -> "e" [] c = "O" -> "o" [] c = "B" -> "b"
      [] OTHER -> c

\* str.lower()
LowerStr(q) == [i \in 1..Len(q) |-> LowerCh(q[i])]

\* the length of the longest prefix of q made of \w characters
WordPrefix(q) ==
    CHOOSE n \in 0..Len(q) :
        /\ \A i \in 1..n : IsW(q[i])
        /\ n = Len(q) \/ ~IsW(q[n + 1])

\* re.findall(r"\w+", text)
RECURSIVE FindAllWords(_)
FindAllWords(q) ==
    IF q = <<>> THEN <<>>
    ELSE IF ~IsW(Head(q)) THEN FindAllWords(Tail(q))
    ELSE <<SubSeq(q, 1, WordPrefix(q))>>
         \o FindAllWords(SubSeq(q, WordPrefix(q) + 1, Len(q)))

\* count_words: a falsy text counts 0, a text that is not a str raises
count_words(text) ==
    IF ~PTruthy(text) THEN [err |-> FALSE, v |-> 0]
    ELSE IF text.k # "str" THEN [err |-> TRUE, v |-> 0]
    ELSE [err |-> FALSE, v |-> Len(FindAllWords(text.s))]


\* words.count(k) for a list of words
CountWord(words, w) == Cardinality({i \in 1..Len(words) : words[i] = w})

\* sum(words.count(k.lower()) for k in keywords)
RECURSIVE KCount(_, _)
KCount(words, keywords) ==
    IF keywords = <<>> THEN 0
    ELSE CountWord(words, LowerStr(Head(keywords).s)) + KCount(words, Tail(keywords))

\* keyword_density: 0.0 for a falsy text or falsy keywords; raises for a
\* text that is not a str and for a keyword that is not a str
keyword_density(text, keywords) ==
    IF ~PTruthy(text) \/ ~PTruthy(keywords) THEN [err |-> FALSE, v |-> PFloat(0, 1)]
    ELSE IF text.k # "str" \/ keywords.k \notin {"list", "str"}
            \/ \E i \in 1..Len(keywords.s) : keywords.k = "list" /\ keywords.s[i].k # "str"
         THEN [err |-> TRUE, v |-> PFloat(0, 1)]
    ELSE LET words == FindAllWords(LowerStr(text.s))
             total == IF Len(words) = 0 THEN 1 ELSE Len(words)
             ks == IF keywords.k = "list" THEN keywords.s
                   ELSE [i \in 1..Len(keywords.s) |-> PStr(<<keywords.s[i]>>)]
         IN  [err |-> FALSE, v |-> PFloat(KCount(words, ks), total)]

\* a character of the class [.!?]
IsEnd(c) == c \in {".", "!", "?"}

\* the length of the longest prefix of q without a character of [.!?]
SentencePrefix(q) ==
    CHOOSE n \in 0..Len(q) :
        /\ \A i \in 1..n : ~IsEnd(q[i])
        /\ n = Len(q) \/ IsEnd(q[n + 1])

\* the length of the longest prefix of q made of characters of [.!?]
EndPrefix(q) ==
    CHOOSE n \in 0..Len(q) :
        /\ \A i \in 1..n : IsEnd(q[i])
        /\ n = Len(q) \/ ~IsEnd(q[n + 1])

\* re.split(r'[.!?]+', text)
RECURSIVE SplitSentences(_)
SplitSentences(q) ==
    LET n == SentencePrefix(q)
        rest == SubSeq(q, n + 1, Len(q))
    IN  IF n = Len(q) THEN <<q>>
        ELSE <<SubSeq(q, 1, n)>>
             \o SplitSentences(SubSeq(rest, EndPrefix(rest) + 1, Len(rest)))

\* str.strip() with "\n" as whitespace too
RECURSIVE StripNl(_)
StripNl(q) ==
    IF q # <<>> /\ Head(q) \in {" ", "\n"} THEN StripNl(Tail(q))
    ELSE IF q # <<>> /\ q[Len(q)] \in {" ", "\n"} THEN StripNl(SubSeq(q, 1, Len(q) - 1))
    ELSE q

\* sum(len(re.findall(r"\w+", s)) for s in sentences)
RECURSIVE SumWords(_)
SumWords(sentences) ==
    IF sentences = <<>> THEN 0
    ELSE Len(FindAllWords(Head(sentences))) + SumWords(Tail(sentences))

\* avg_sentence_length
avg_sentence_length(text) ==
    IF ~PTruthy(text) THEN [err |-> FALSE, v |-> PFloat(0, 1)]
    ELSE IF text.k # "str" THEN [err |-> TRUE, v |-> PFloat(0, 1)]
    ELSE LET parts == SplitSentences(text.s)
             stripped == [i \in 1..Len(parts) |-> StripNl(parts[i])]
             IsFull(x) == x # <<>>
             sentences == SelectSeq(stripped, IsFull)
         IN  IF sentences = <<>> THEN [err |-> FALSE, v |-> PFloat(0, 1)]
             ELSE [err |-> FALSE, v |-> PFloat(SumWords(sentences), Len(sentences))]


\* the names of the features extract_features writes, in the order of
\* Python's sorted() on str, followed by a name no extractor writes
FeatureNameOrder ==
    <<"article_words", "avg_sentence_len", "external_links", "h1_present",
      "h_count", "has_canonical", "images", "images_per_100_words",
      "internal_links", "keyword_density_article", "keyword_density_title",
      "links_per_100_words", "meta_len", "meta_words", "readability",
      "title_len", "title_words", "word_count">>

\* the keys of the dict extract_features returns
ExtractedNames ==
    {FeatureNameOrder[i] : i \in 1..Len(FeatureNameOrder)} \ {"word_count"}

\* sorted(names) for a set of feature names
sorted(names) ==
    LET Member(x) == x \in names
    IN  SelectSeq(FeatureNameOrder, Member)

\* analyzer.get(key, 0) if analyzer.get(key) is not None else 0
GetOrZero(analyzer, key) ==
    IF Get(analyzer, key, PNone).k # "None" THEN Get(analyzer, key, PInt(0))
    ELSE PInt(0)

\* a / b of two numbers, as a float
Div(a, b) == PFloat(a.n * b.d, a.d * b.n)

\* a + b of two numbers
Add(a, b) ==
    IF a.k = "float" \/ b.k = "float" THEN PFloat(a.n * b.d + b.n * a.d, a.d * b.d)
    ELSE PInt(a.n + b.n)

\* generated.get(key, '') if isinstance(generated, dict) else ''
TextOf(generated, key) ==
    IF generated.k = "dict" THEN Get(generated, key, PStr(<<>>)) ELSE PStr(<<>>)

\* lines 49-86 of extract_features once the three texts are counted: aw,
\* tw, mw, asl, kdt, kda are the results of count_words, avg_sentence_length
\* and keyword_density, fre that of flesch_reading_ease.  The closing loop
\* replaces non-finite floats by 0.0; every float here is finite.
features_dict(analyzer, article_text, fre, aw, tw, mw, asl, kdt, kda, images, internal, external, words_or_1) ==
    LET raises ==
            \/ analyzer.k # "dict"
            \/ aw.err \/ tw.err \/ mw.err \/ asl.err \/ kdt.err \/ kda.err
            \/ ~IsNumber(images) \/ ~IsNumber(internal) \/ ~IsNumber(external)
        Times100(x) == PFloat(x.n * 100, x.d)
        value(name) ==
            CASE name = "title_len" -> PInt(safe_len(Get(analyzer, "title", PStr(<<>>))))
              [] name = "meta_len" -> PInt(safe_len(Get(analyzer, "meta", PStr(<<>>))))
              [] name = "h1_present" ->
                    PInt(IF PTruthy(Get(analyzer, "h1", PNone)) THEN 1 ELSE 0)
              [] name = "h_count" -> GetOrZero(analyzer, "heading_count")
              [] name = "images" -> images
              [] name = "internal_links" -> internal
              [] name = "external_links" -> external
              [] name = "has_canonical" ->
                    PInt(IF PTruthy(Get(analyzer, "canonical", PNone)) THEN 1 ELSE 0)
              [] name = "article_words" -> PInt(aw.v)
              [] name = "title_words" -> PInt(tw.v)
              [] name = "meta_words" -> PInt(mw.v)
              [] name = "avg_sentence_len" -> asl.v
              [] name = "readability" ->
                    IF PTruthy(article_text) /\ fre.k = "ok" THEN PFloat(fre.v, 1)
                    ELSE PFloat(0, 1)
              [] name = "keyword_density_title" -> kdt.v
              [] name = "keyword_density_article" -> kda.v
              [] name = "images_per_100_words" -> Times100(Div(images, words_or_1))
              [] name = "links_per_100_words" ->
                    Times100(Div(Add(internal, external), words_or_1))
    IN  IF raises THEN [err |-> TRUE, feats |-> EmptyPDict]
        ELSE [err |-> FALSE,
              feats |-> PDict([name \in ExtractedNames |-> value(name)])]

\* article_words or 1
OrOne(aw) == PInt(IF aw.v = 0 THEN 1 ELSE aw.v)

\* extract_features(analyzer, generated, keywords); fre is what
\* flesch_reading_ease does for the article: [k |-> "raises"] or
\* [k |-> "ok", v |-> score].  The result is [err, feats]: err when a line
\* of the function raises.
extract_features(analyzer, generated, keywords0, fre) ==
    LET keywords     == IF PTruthy(keywords0) THEN keywords0 ELSE PList(<<>>)
        article_text == TextOf(generated, "article")
        title_text   == TextOf(generated, "title")
        meta_text    == TextOf(generated, "meta")
    IN  features_dict(analyzer, article_text, fre,
                      count_words(article_text), count_words(title_text),
                      count_words(meta_text), avg_sentence_length(article_text),
                      keyword_density(title_text, keywords),
                      keyword_density(article_text, keywords),
                      GetOrZero(analyzer, "images_count"),
                      GetOrZero(analyzer, "internal_links"),
                      GetOrZero(analyzer, "external_links"),
                      OrOne(count_words(article_text)))

-----------------------------------------------------------------------------
(* scorer/train_model.py                                                   *)
(*                                                                         *)
(* An estimator is [est, n, names, fit_keys]: n is n_features_in_, names   *)
(* is feature_names_in_ (<<>> when the estimator has no such attribute),   *)
(* fit_keys is the meaning of the columns it was fitted on.  An object     *)
(* that is not an estimator has est = FALSE.                               *)
(* model.joblib is [exists, data]; data is what joblib.load gives:         *)
(*   [k |-> "dict", model, feature_keys]   a dict with the key "model"     *)
(*   [k |-> "bare", model, feature_keys]   any other object                *)
(*   [k |-> "corrupt", ...]                joblib.load raises              *)
(* feature_keys = <<>> stands for a missing, None or empty entry.          *)

Estimator(n, names, fit_keys) ==
    [est |-> TRUE, n |-> n, names |-> names, fit_keys |-> fit_keys]

NotEstimator == [est |-> FALSE, n |-> 0, names |-> <<>>, fit_keys |-> <<>>]

ModelData(k, model, feature_keys) ==
    [k |-> k, model |-> model, feature_keys |-> feature_keys]

NoModelFile == [exists |-> FALSE, data |-> ModelData("corrupt", NotEstimator, <<>>)]

ModelFile(data) == [exists |-> TRUE, data |-> data]

\* meta = {"domain": "example.com"} of build_dataset
TrainMeta == PDict([x \in {"domain"} |-> PStr(<<"e", ".", "c">>)])

\* build_dataset: one features dict per page; both setdefault calls find
\* their key present and change nothing
build_dataset(pages, fre) ==
    [i \in 1..Len(pages) |->
        extract_features(TrainMeta, pages[i], Get(pages[i], "keywords", PNone), fre).feats]

\* [feat.get(k, 0.0) for k in keys]
Row(feat, keys) == [i \in 1..Len(keys) |-> Get(feat, keys[i], PFloat(0, 1))]

\* rows_to_matrix: the sorted union of the feature names, and one row per
\* features dict in that order
rows_to_matrix(rows) ==
    LET keys == sorted(UNION {DOMAIN rows[i].d : i \in 1..Len(rows)})
    IN  [keys |-> keys, X |-> [i \in 1..Len(rows) |-> Row(rows[i], keys)]]

\* train_and_save: fits on the matrix (a numpy array, so the estimator has
\* no feature_names_in_) and dumps {"model": model, "feature_keys": keys}
train_and_save(pages, fre) ==
    LET m == rows_to_matrix(build_dataset(pages, fre))
    IN  ModelFile(ModelData("dict", Estimator(Len(m.keys), <<>>, m.keys), m.keys))


-----------------------------------------------------------------------------
(* scorer/api.py *)

\* a value of the global _feature_keys that is a list
KeyList(keys) == [kind |-> "list", value |-> keys]

\* the set of the elements of a sequence
Elems(q) == {q[i] : i \in 1..Len(q)}

\* _load_model: [err, loaded, fkeys], the exception flag and the two
\* globals after the call.  In the dict branch _loaded is assigned before
\* _feature_keys is computed; "names or []" on a feature_names_in_ array of
\* two or more names raises ValueError (the truth value of an array).
_load_model(file, loaded, fkeys) ==
    IF loaded # None THEN [err |-> FALSE, loaded |-> loaded, fkeys |-> fkeys]
    ELSE IF ~file.exists \/ file.data.k = "corrupt"
         THEN [err |-> TRUE, loaded |-> loaded, fkeys |-> fkeys]
    ELSE IF file.data.k = "dict"
         THEN IF file.data.feature_keys # <<>>
              THEN [err |-> FALSE, loaded |-> file.data.model,
                    fkeys |-> KeyList(file.data.feature_keys)]
              ELSE IF Len(file.data.model.names) >= 2
              THEN [err |-> TRUE, loaded |-> file.data.model, fkeys |-> fkeys]
              ELSE [err |-> FALSE, loaded |-> file.data.model,
                    fkeys |-> KeyList(sorted(Elems(file.data.model.names)))]
    ELSE [err |-> FALSE, loaded |-> file.data.model,
          fkeys |-> IF file.data.model.names # <<>>
                    THEN KeyList(sorted(Elems(file.data.model.names)))
                    ELSE None]

\* faulty variant of predict_keys: the saved keys are ignored
predict_keys_sorted_only(feature_keys, feats) == sorted(DOMAIN feats.d)

\* lines 69-73: keys = feature_keys if feature_keys else sorted(feats.keys())
predict_keys(feature_keys, feats) ==
    IF feature_keys # None /\ feature_keys.value # <<>> THEN feature_keys.value
    ELSE sorted(DOMAIN feats.d)

\* np.array([[...]]): "ok", or "ragged" when an entry is a list, which
\* raises ValueError on numpy 1.24 and later and builds an object array before
ArrayKind(X) == IF \E i \in 1..Len(X) : X[i].k = "list" THEN "ragged" ELSE "ok"

\* model.predict(X): raises for an object that is no estimator, for a row
\* of another width than the estimator was fitted on, and for an entry
\* that is not a number
PredictRaises(model, X) ==
    \/ ~model.est
    \/ Len(X) # model.n
    \/ \E i \in 1..Len(X) : ~IsNumber(X[i])

\* faulty variant of StageStatus: every failure is reported as 500
StageStatus_all_500(stage) == 500

\* the status_code of the HTTPException each stage's except clause raises
StageStatus(stage) ==
    CASE stage = "extract" -> 400
      [] stage = "load" -> 500
      [] stage = "predict" -> 500


\* a response of POST /predict/: status and how it came about ("raise" of
\* an HTTPException, "unhandled" exception, "return"), the stages that were
\* attempted in order, the keys and the vector built, and the two globals
PredictResp(status, via, stage, score, feats, stages, keys, X, ld) ==
    [status |-> status, via |-> via, stage |-> stage, score |-> score,
     features |-> feats, stages |-> stages, keys |-> keys, X |-> X,
     loaded |-> ld.loaded, fkeys |-> ld.fkeys]

\* lines 75-81: the row is built, the estimator is called, the response
\* is returned.  numpy: what np.array does with a ragged row, "raises" or
\* "object"; y: what the estimator predicts when it does not raise.
predict_call(feats, keys, X, ld, y, numpy) ==
    IF ArrayKind(X) = "ragged" /\ numpy = "raises"
    THEN PredictResp(500, "unhandled", "vector", PNone, EmptyPDict,
                     <<"extract", "load">>, keys, <<>>, ld)
    ELSE IF PredictRaises(ld.loaded, X)
    THEN PredictResp(StageStatus("predict"), "raise", "predict", PNone, EmptyPDict,
                     <<"extract", "load", "predict">>, keys, X, ld)
    ELSE PredictResp(200, "return", "none", PFloat(y, 1), feats,
                     <<"extract", "load", "predict">>, keys, X, ld)

\* lines 68-75: the keys and the row
predict_vector(feats, keys, ld, y, numpy) ==
    predict_call(feats, keys, Row(feats, keys), ld, y, numpy)

\* lines 60-75: ex is the outcome of the first try block, ld that of
\* _load_model, which is called only when the first did not raise
predict_stages(ex, ld, same, y, numpy) ==
    IF ex.err
    THEN PredictResp(StageStatus("extract"), "raise", "extract", PNone, EmptyPDict,
                     <<"extract">>, <<>>, <<>>, same)
    ELSE IF ld.err
    THEN PredictResp(StageStatus("load"), "raise", "load", PNone, EmptyPDict,
                     <<"extract", "load">>, <<>>, <<>>, ld)
    ELSE predict_vector(ex.feats, predict_keys(ld.fkeys, ex.feats), ld, y, numpy)

\* predict_score(payload).  fre: what flesch_reading_ease does for the
\* article; file, loaded, fkeys: model.joblib and the two globals.
predict_score(payload, fre, file, loaded, fkeys, y, numpy) ==
    LET page  == Get(payload, "page", EmptyPDict)
        meta0 == Get(payload, "meta", EmptyPDict)
        meta  == IF PTruthy(meta0) THEN meta0 ELSE EmptyPDict
    IN  predict_stages(
            IF page.k # "dict" THEN [err |-> TRUE, feats |-> EmptyPDict]
            ELSE extract_features(meta, page, Get(page, "keywords", PList(<<>>)), fre),
            _load_model(file, loaded, fkeys),
            [err |-> FALSE, loaded |-> loaded, fkeys |-> fkeys],
            y, numpy)

-----------------------------------------------------------------------------
(* Specification of the predictor: a model file that the training script   *)
(* or an earlier release wrote (or none), then /predict/ requests and      *)
(* runs of the training script in any order                                *)

\* "Seo", "seo blog.", and "Seo. blog seo!"
TxtSeo     == <<"S", "e", "o">>
TxtBlog    == <<"s", "e", "o", " ", "b", "l", "o", "g", ".">>
TxtArticle == <<"S", "e", "o", ".", " ", "b", "l", "o", "g", " ", "s", "e", "o", "!">>

\* a dict from a set of <<key, value>> pairs with distinct keys
DictOf(pairs) ==
    PDict([key \in {p[1] : p \in pairs} |-> (CHOOSE p \in pairs : p[1] = key)[2]])

\* the page of the documented payload shape
DocPage ==
    DictOf({<<"title", PStr(TxtSeo)>>, <<"article", PStr(TxtArticle)>>,
            <<"meta", PStr(TxtBlog)>>,
            <<"keywords", PList(<<PStr(<<"s", "e", "o">>), PStr(<<"b", "l", "o", "g">>)>>)>>,
            <<"heading_count", PInt(2)>>, <<"images_count", PInt(1)>>,
            <<"internal_links", PInt(2)>>, <<"external_links", PInt(0)>>,
            <<"canonical", PBool(TRUE)>>})

\* a page as make_random_page builds it
TrainPage ==
    DictOf({<<"title", PStr(TxtSeo)>>, <<"article", PStr(TxtArticle)>>,
            <<"meta", PStr(<<>>)>>,
            <<"keywords", PList(<<PStr(<<"s", "e", "o">>)>>)>>,
            <<"heading_count", PInt(4)>>, <<"images_count", PInt(3)>>,
            <<"internal_links", PInt(0)>>, <<"external_links", PInt(3)>>,
            <<"canonical", PBool(FALSE)>>})

DocMeta == DictOf({<<"domain", PStr(<<"e", ".", "c">>)>>})

\* a meta dict that carries the analyzer's keys itself
AnalyzerMeta(heading_count) ==
    DictOf({<<"title", PStr(TxtBlog)>>, <<"h1", PStr(TxtSeo)>>,
            <<"heading_count", heading_count>>, <<"images_count", PInt(3)>>,
            <<"internal_links", PInt(1)>>, <<"external_links", PBool(TRUE)>>,
            <<"canonical", PStr(TxtSeo)>>})

Payloads ==
    {DictOf({<<"meta", DocMeta>>, <<"page", DocPage>>}),
     DictOf({<<"meta", DocMeta>>, <<"page", TrainPage>>}),
     DictOf({<<"page", DocPage>>}),
     DictOf({<<"meta", PNone>>, <<"page", DocPage>>}),
     DictOf({<<"meta", DocMeta>>}),
     DictOf({}),
     DictOf({<<"meta", DocMeta>>, <<"page", PNone>>}),
     DictOf({<<"meta", DocMeta>>, <<"page", PStr(TxtSeo)>>}),
     DictOf({<<"meta", PStr(TxtSeo)>>, <<"page", DocPage>>}),
     DictOf({<<"meta", DocMeta>>, <<"page", DictOf({<<"article", PInt(5)>>})>>}),
     DictOf({<<"meta", DocMeta>>,
             <<"page", DictOf({<<"title", PStr(TxtSeo)>>,
                               <<"keywords", PList(<<PInt(1)>>)>>})>>}),
     DictOf({<<"meta", AnalyzerMeta(PInt(12))>>, <<"page", DocPage>>}),
     DictOf({<<"meta", AnalyzerMeta(PStr(TxtSeo))>>, <<"page", DocPage>>}),
     DictOf({<<"meta", AnalyzerMeta(PList(<<PInt(1)>>))>>, <<"page", DocPage>>}),
     DictOf({<<"meta", DictOf({<<"images_count", PStr(TxtSeo)>>})>>, <<"page", DocPage>>})}


\* feature keys an earlier release of the trainer saved: another order and
\* a name the extractor no longer writes
LegacyKeys == <<"title_len", "word_count", "h_count">>

ModelFiles ==
    {NoModelFile,
     ModelFile(ModelData("corrupt", NotEstimator, <<>>)),
     train_and_save(<<TrainPage>>, [k |-> "ok", v |-> 60]),
     ModelFile(ModelData("dict", Estimator(3, <<>>, LegacyKeys), LegacyKeys)),
     ModelFile(ModelData("dict", Estimator(17, <<>>, sorted(ExtractedNames)), <<>>)),
     ModelFile(ModelData("dict", Estimator(2, <<"title_len", "h_count">>,
                                           <<"title_len", "h_count">>), <<>>)),
     ModelFile(ModelData("bare", Estimator(2, <<"title_len", "h_count">>,
                                           <<"title_len", "h_count">>), <<>>)),
     ModelFile(ModelData("bare", Estimator(17, <<>>, sorted(ExtractedNames)), <<>>)),
     ModelFile(ModelData("bare", NotEstimator, <<>>))}

FleschResults == {[k |-> "raises", v |-> 0], [k |-> "ok", v |-> 60]}
Predictions == {73}

\* what np.array may do with the row of this payload: the two builds differ
\* only when meta.heading_count is a list
NumpyBuilds(payload) ==
    IF Get(payload, "meta", PNone).k = "dict"
       /\ Get(Get(payload, "meta", PNone), "heading_count", PNone).k = "list"
    THEN {"raises", "object"}
    ELSE {"raises"}

PredInit ==
    /\ model_file \in ModelFiles
    /\ _loaded = None
    /\ _feature_keys = None
    /\ loaded_from = None
    /\ pred_req = None
    /\ pred_resp = None
    /\ features = None /\ score_out = None
    /\ req = None /\ fetch_result = None /\ textstat = None
    /\ scoring_raises = FALSE /\ resp_analyze = None /\ resp_score = None
    /\ gen_in = None /\ gen_out = None
    /\ urls_file = None /\ sched = None /\ ret = NoOp
    /\ last_saved = None /\ startups = 0
    /\ cmp_req = None /\ cmp_resp = None /\ writers = None

\* POST /predict/
Predict ==
    \E payload \in Payloads, fre \in FleschResults, y \in Predictions :
      \E numpy \in NumpyBuilds(payload) :
        \E r \in {predict_score(payload, fre, model_file, _loaded, _feature_keys, y, numpy)} :
            /\ loaded_from' = IF _loaded = None /\ r.loaded # None
                              THEN model_file.data ELSE loaded_from
            /\ pred_req' = [payload |-> payload, fre |-> fre, y |-> y, numpy |-> numpy,
                            file |-> model_file, loaded |-> _loaded,
                            from |-> loaded_from']
            /\ pred_resp' = r
            /\ _loaded' = r.loaded
            /\ _feature_keys' = r.fkeys
            /\ UNCHANGED <<model_file, cmpVars, writers>>
            /\ UNCHANGED <<scoreVars, anaVars, genVars, appVars>>

\* python -m scorer.train_model
TrainAndSave ==
    \E pages \in {<<TrainPage>>, <<TrainPage, DocPage>>}, fre \in FleschResults :
        /\ model_file' = train_and_save(pages, fre)
        /\ UNCHANGED <<_loaded, _feature_keys, loaded_from, pred_req, pred_resp, cmpVars, writers>>
        /\ UNCHANGED <<scoreVars, anaVars, genVars, appVars>>

\* the server process starts again: the module globals are None
Restart ==
    /\ _loaded' = None
    /\ _feature_keys' = None
    /\ loaded_from' = None
    /\ UNCHANGED <<model_file, pred_req, pred_resp, cmpVars, writers>>
    /\ UNCHANGED <<scoreVars, anaVars, genVars, appVars>>

PredNext ==
    \/ Predict
    \/ TrainAndSave
    \/ Restart

SpecPredict ==
    /\ PredInit
    /\ [][PredNext]_vars

\* the first try block of predict_score raises for the request: the page is
\* no dict, or extract_features raises
ExtractFails(r) ==
    LET page == Get(r.payload, "page", EmptyPDict)
        meta == Get(r.payload, "meta", EmptyPDict)
    IN  \/ page.k # "dict"
        \/ PTruthy(meta) /\ meta.k # "dict"
        \/ \E key \in {"article", "title", "meta"} :
              PTruthy(Get(page, key, PNone)) /\ Get(page, key, PNone).k # "str"
        \/ /\ PTruthy(Get(page, "keywords", PNone))
           /\ PTruthy(Get(page, "title", PNone)) \/ PTruthy(Get(page, "article", PNone))
           /\ \E i \in 1..Len(Get(page, "keywords", PNone).s) :
                 Get(page, "keywords", PNone).s[i].k # "str"
        \/ /\ meta.k = "dict"
           /\ \E key \in {"images_count", "internal_links", "external_links"} :
                 Get(meta, key, PInt(0)).k \in {"str", "list", "dict"}

\* nothing is cached and model.joblib is missing or unreadable
LoadFails(r) == r.loaded = None /\ (~r.file.exists \/ r.file.data.k = "corrupt")

AllStages == <<"extract", "load", "predict">>

\* C11: predict_score maps each failure stage to a fixed outcome.  A failure
\* while reading the payload or extracting features gives HTTP 400 and
\* neither the model load nor model.predict is attempted (the globals keep
\* their values).  Otherwise a failure to load the model gives HTTP 500 and
\* model.predict is not attempted.  Otherwise a failure of model.predict
\* gives HTTP 500.  {score, features} is returned only when all three
\* stages ran and none failed.  The stages attempted always form a prefix
\* of extract, load, predict.
C11_StageOutcomes ==
    pred_resp # None =>
        /\ \E n \in 1..3 : pred_resp.stages = SubSeq(AllStages, 1, n)
        /\ ExtractFails(pred_req) <=> pred_resp.stage = "extract"
        /\ pred_resp.stage = "extract" =>
              /\ pred_resp.status = 400 /\ pred_resp.via = "raise"
              /\ pred_resp.stages = <<"extract">>
              /\ pred_resp.loaded = pred_req.loaded
        /\ (~ExtractFails(pred_req) /\ LoadFails(pred_req)) => pred_resp.stage = "load"
        /\ pred_resp.stage = "load" =>
              /\ pred_resp.status = 500 /\ pred_resp.via = "raise"
              /\ pred_resp.stages = <<"extract", "load">>
        /\ pred_resp.stage = "predict" =>
              /\ pred_resp.status = 500 /\ pred_resp.via = "raise"
              /\ pred_resp.stages = AllStages
              /\ PredictRaises(pred_resp.loaded, pred_resp.X)
        /\ pred_resp.status = 200 <=> pred_resp.via = "return"
        /\ pred_resp.via = "return" =>
              /\ pred_resp.stages = AllStages
              /\ ~ExtractFails(pred_req) /\ ~LoadFails(pred_req)
              /\ ~PredictRaises(pred_resp.loaded, pred_resp.X)
              /\ pred_resp.score = PFloat(pred_req.y, 1)
              /\ DOMAIN pred_resp.features.d = ExtractedNames

\* C11 witness: a request whose payload cannot be read arrived while the
\* model file was missing; it was answered 400 and no load was attempted.
C11_Witness ==
    /\ pred_resp # None
    /\ ExtractFails(pred_req) /\ LoadFails(pred_req)
    /\ pred_resp.status = 400 /\ pred_resp.stages = <<"extract">>


\* the six features the analyzer-style keys of a page should determine
PageFeatures(page) ==
    [h_count        |-> Get(page, "heading_count", PInt(0)),
     images         |-> Get(page, "images_count", PInt(0)),
     internal_links |-> Get(page, "internal_links", PInt(0)),
     external_links |-> Get(page, "external_links", PInt(0)),
     has_canonical  |-> PInt(IF PTruthy(Get(page, "canonical", PNone)) THEN 1 ELSE 0),
     title_len      |-> PInt(Len(Get(page, "title", PStr(<<>>)).s))]

\* the same six features as a features dict holds them
SixOf(feats) ==
    [name \in {"h_count", "images", "internal_links", "external_links",
               "has_canonical", "title_len"} |-> feats.d[name]]

\* a payload of the shape the docstring of predict_score documents
DocumentedShape(payload) ==
    /\ DOMAIN payload.d = {"meta", "page"}
    /\ payload.d["meta"].k = "dict" /\ DOMAIN payload.d["meta"].d = {"domain"}
    /\ payload.d["page"].k = "dict"
    /\ DOMAIN payload.d["page"].d =
          {"title", "article", "meta", "keywords", "heading_count", "images_count",
           "internal_links", "external_links", "canonical"}

\* C12: for a /predict/ payload of the documented shape the returned
\* features h_count, images, internal_links, external_links, has_canonical
\* and title_len are the page's heading_count, images_count,
\* internal_links, external_links, canonical (as 0 or 1) and the length of
\* its title, and the training script's build_dataset gives the same six
\* values for the same page.
C12_PageFieldsDetermineFeatures ==
    (pred_resp # None /\ pred_resp.via = "return" /\ DocumentedShape(pred_req.payload)) =>
        LET page == pred_req.payload.d["page"]
        IN  /\ SixOf(pred_resp.features) = PageFeatures(page)
            /\ SixOf(build_dataset(<<page>>, pred_req.fre)[1]) = PageFeatures(page)


\* the features dict the first try block of predict_score extracts for a request
ReqFeats(r) ==
    LET page  == Get(r.payload, "page", EmptyPDict)
        meta0 == Get(r.payload, "meta", EmptyPDict)
    IN  extract_features(IF PTruthy(meta0) THEN meta0 ELSE EmptyPDict, page,
                         Get(page, "keywords", PList(<<>>)), r.fre).feats

\* the feature keys the loader holds after the request, <<>> when it holds none
HeldKeys(resp) == IF resp.fkeys = None THEN <<>> ELSE resp.fkeys.value

-----------------------------------------------------------------------------
(* competitor/api.py: compare_pages.  target and the competitors are the   *)
(* features dicts analyze_competitors returns: int metrics, a list of str  *)
(* as top_keywords, a str title, any of them possibly missing.             *)

metrics == <<"word_count", "images", "internal_links", "external_links">>

\* sum(c.get("word_count", 0) for c in competitors)
RECURSIVE SumWordCount(_)
SumWordCount(competitors) ==
    IF competitors = <<>> THEN 0
    ELSE Get(Head(competitors), "word_count", PInt(0)).n + SumWordCount(Tail(competitors))

\* round(n / d, 2) in hundredths, for n >= 0 and d > 0: the nearest
\* hundredth, the even one on a tie.  n / d lies exactly between two
\* hundredths only when d is a multiple of 8; for fewer than 8 competitors
\* the float quotient therefore rounds as the exact one does.
RoundAvg(n, d) ==
    LET q == (n * 100) \div d
        r == (n * 100) % d
    IN  IF 2 * r > d \/ (2 * r = d /\ q % 2 = 1) THEN q + 1 ELSE q

\* faulty variant of KeywordOverlap: a keyword the target lists twice is counted twice
KeywordOverlap_with_repeats(target, comp) ==
    Cardinality({i \in 1..Len(Get(target, "top_keywords", PList(<<>>)).s) :
                    Get(target, "top_keywords", PList(<<>>)).s[i]
                        \in Elems(Get(comp, "top_keywords", PList(<<>>)).s)})

\* len(set(target.get("top_keywords", [])) & set(comp.get("top_keywords", [])))
KeywordOverlap(target, comp) ==
    Cardinality(Elems(Get(target, "top_keywords", PList(<<>>)).s)
                \cap Elems(Get(comp, "top_keywords", PList(<<>>)).s))

\* one entry of the report, lines 121-130
ReportEntry(target, comp) ==
    [competitor |-> Get(comp, "title", PStr(<<"Competitor">>)),
     differences |->
        [m \in Elems(metrics) \cup {"keyword_overlap"} |->
            IF m = "keyword_overlap" THEN KeywordOverlap(target, comp)
            ELSE Get(target, m, PInt(0)).n - Get(comp, m, PInt(0)).n]]

\* compare_pages(data)
compare_pages(data) ==
    LET target      == Get(data, "target", EmptyPDict)
        competitors == Get(data, "competitors", PList(<<>>))
    IN  IF ~PTruthy(target) \/ ~PTruthy(competitors)
        THEN [status |-> 400, detail |-> "Need both target and competitors data",
              summary |-> None, detailed |-> <<>>]
        ELSE LET total == SumWordCount(competitors.s)
                 n     == Len(competitors.s)
                 twc   == Get(target, "word_count", PInt(0)).n
             IN  [status |-> 200, detail |-> "",
                  summary |->
                     [target_word_count |-> twc,
                      competitor_avg_words |-> RoundAvg(total, n),
                      recommendation |->
                         IF twc * n < total
                         THEN "Increase content length and keyword coverage"
                         ELSE "Your content length is strong; focus on backlinks and meta tags"],
                  detailed |-> [i \in 1..n |-> ReportEntry(target, competitors.s[i])]]


-----------------------------------------------------------------------------
(* Specification of the comparison: any request body, then one call *)

MaxCompetitors == 2

KwSeo  == PStr(<<"s", "e", "o">>)
KwBlog == PStr(<<"b", "l", "o", "g">>)
KwRank == PStr(<<"r", "a", "n", "k">>)

Targets ==
    {DictOf({<<"word_count", PInt(900)>>, <<"images", PInt(2)>>,
             <<"internal_links", PInt(5)>>, <<"external_links", PInt(1)>>,
             <<"top_keywords", PList(<<KwSeo, KwBlog, KwSeo>>)>>}),
     DictOf({<<"word_count", PInt(100)>>, <<"top_keywords", PList(<<KwRank>>)>>}),
     DictOf({<<"title", PStr(TxtSeo)>>})}

Competitors ==
    {DictOf({<<"title", PStr(TxtBlog)>>, <<"word_count", PInt(1201)>>,
             <<"images", PInt(7)>>, <<"internal_links", PInt(3)>>,
             <<"external_links", PInt(4)>>,
             <<"top_keywords", PList(<<KwBlog, KwSeo, KwRank, KwBlog>>)>>}),
     DictOf({<<"word_count", PInt(100)>>, <<"images", PInt(1)>>,
             <<"top_keywords", PList(<<KwSeo>>)>>}),
     DictOf({<<"title", PStr(TxtSeo)>>, <<"external_links", PInt(2)>>}),
     EmptyPDict}

\* the item of a JSON object for a key that may be absent
OptItem(key, o) == IF o.has THEN {<<key, o.v>>} ELSE {}

CompareRequests ==
    LET targets == {[has |-> FALSE, v |-> PNone], [has |-> TRUE, v |-> PNone],
                    [has |-> TRUE, v |-> EmptyPDict]}
                   \cup {[has |-> TRUE, v |-> t] : t \in Targets}
        lists   == {[has |-> FALSE, v |-> PNone], [has |-> TRUE, v |-> PNone]}
                   \cup {[has |-> TRUE, v |-> PList(q)] :
                            q \in SeqsUpTo(Competitors, MaxCompetitors)}
    IN  {DictOf(OptItem("target", t) \cup OptItem("competitors", c)) :
            t \in targets, c \in lists}

CmpInit ==
    /\ cmp_req \in CompareRequests
    /\ cmp_resp = None
    /\ features = None /\ score_out = None
    /\ req = None /\ fetch_result = None /\ textstat = None
    /\ scoring_raises = FALSE /\ resp_analyze = None /\ resp_score = None
    /\ gen_in = None /\ gen_out = None
    /\ urls_file = None /\ sched = None /\ ret = NoOp
    /\ last_saved = None /\ startups = 0
    /\ model_file = None /\ _loaded = None /\ _feature_keys = None
    /\ loaded_from = None /\ pred_req = None /\ pred_resp = None
    /\ writers = None

\* POST /compare/
Compare ==
    /\ cmp_resp = None
    /\ cmp_resp' = compare_pages(cmp_req)
    /\ UNCHANGED <<cmp_req, predVars, writers>>
    /\ UNCHANGED <<scoreVars, anaVars, genVars, appVars>>

SpecCompare ==
    /\ CmpInit
    /\ [][Compare]_vars


\* a key of the request body is missing, null or empty
MissingOrEmpty(key) ==
    \/ key \notin DOMAIN cmp_req.d
    \/ cmp_req.d[key] \in {PNone, EmptyPDict, PList(<<>>)}

\* a metric of a features dict, a missing one as 0
MetricOf(d, m) == IF m \in DOMAIN d.d THEN d.d[m].n ELSE 0

\* the distinct keywords a features dict lists
KeywordsOf(d) ==
    IF "top_keywords" \in DOMAIN d.d
    THEN {d.d["top_keywords"].s[i] : i \in 1..Len(d.d["top_keywords"].s)}
    ELSE {}

\* C14: compare_pages fails with HTTP 400 when target or competitors is
\* missing or empty, so that a report is only made for at least one
\* competitor; otherwise it returns one report entry per competitor in
\* input order, whose differences[m] is target[m] minus competitor[m], a
\* missing value as 0, for word_count, images, internal_links and
\* external_links, and whose keyword_overlap is the number of distinct
\* keywords both top_keywords lists contain.
C14_CompareReport ==
    cmp_resp # None =>
        IF MissingOrEmpty("target") \/ MissingOrEmpty("competitors")
        THEN cmp_resp.status = 400
        ELSE LET target == cmp_req.d["target"]
                 comps  == cmp_req.d["competitors"].s
             IN  /\ cmp_resp.status = 200
                 /\ Len(comps) > 0
                 /\ Len(cmp_resp.detailed) = Len(comps)
                 /\ \A i \in 1..Len(comps) :
                       /\ \A m \in {"word_count", "images", "internal_links",
                                    "external_links"} :
                             cmp_resp.detailed[i].differences[m] =
                                 MetricOf(target, m) - MetricOf(comps[i], m)
                       /\ cmp_resp.detailed[i].differences["keyword_overlap"] =
                             Cardinality({kw \in KeywordsOf(target) :
                                             kw \in KeywordsOf(comps[i])})
                       /\ "title" \in DOMAIN comps[i].d =>
                             cmp_resp.detailed[i].competitor = comps[i].d["title"]

\* C14 witness: a report for two competitors: the first shares the two
\* distinct keywords of a target that lists one of them twice, the second
\* has no word_count and no top_keywords.
C14_Witness ==
    /\ cmp_resp # None /\ cmp_resp.status = 200
    /\ Len(cmp_resp.detailed) = 2
    /\ Len(Get(cmp_req.d["target"], "top_keywords", PList(<<>>)).s) = 3
    /\ cmp_resp.detailed[1].differences["word_count"] = -301
    /\ cmp_resp.detailed[1].differences["keyword_overlap"] = 2
    /\ cmp_resp.detailed[2].differences["word_count"] = 900
    /\ cmp_resp.detailed[2].differences["external_links"] = -1
    /\ cmp_resp.detailed[2].differences["keyword_overlap"] = 0


-----------------------------------------------------------------------------
(* monitor/jobs.py and main.py under concurrency.  The endpoints are plain *)
(* def functions, which the framework runs on worker threads, and the      *)
(* scheduler runs monitor_once on a thread of its own, so calls overlap.   *)
(* _save_urls takes no lock and writes urls.json in place:                 *)
(*   open(URLS_PATH, "w")  truncates the file and gives the call its own   *)
(*                         write position 0;                               *)
(*   json.dump / close     write the text at that position, in one piece   *)
(*                         or in several, as the buffer is flushed.        *)
(* _load_urls reads the file as it is at that moment.  A unit of the file  *)
(* is one token of the JSON text.                                          *)

\* a unit of the file no call wrote: the hole a write beyond the end leaves
Hole == Tok("hole", NoneStr)

\* the file text after chunk is written at position pos
WriteAt(text, pos, chunk) ==
    [i \in 1..Max2(Len(text), pos + Len(chunk)) |->
        IF pos < i /\ i <= pos + Len(chunk) THEN chunk[i - pos]
        ELSE IF i <= Len(text) THEN text[i]
        ELSE Hole]

IdleWriter == [pc |-> "idle", urls |-> <<>>, cleaned |-> <<>>, before |-> <<>>,
               text |-> <<>>, pos |-> 0]

WriterIds == {"w1", "w2"}

OldList == <<Str(<<"http://old">>)>>

RaceUrlLists ==
    {<<Str(<<"http://a">>)>>,
     <<Str(<<WS, "http://b">>), Str(<<"http://a">>)>>,
     <<Str(<<WS>>)>>}

RaceInit ==
    /\ urls_file \in {NoFile, _save_urls(OldList)}
    /\ writers = [w \in WriterIds |-> IdleWriter]
    /\ sched = NewScheduler
    /\ ret = NoOp
    /\ last_saved = None
    /\ startups = 0
    /\ features = None /\ score_out = None
    /\ req = None /\ fetch_result = None /\ textstat = None
    /\ scoring_raises = FALSE /\ resp_analyze = None /\ resp_score = None
    /\ gen_in = None /\ gen_out = None
    /\ model_file = None /\ _loaded = None /\ _feature_keys = None
    /\ loaded_from = None /\ pred_req = None /\ pred_resp = None
    /\ cmp_req = None /\ cmp_resp = None

\* POST /monitor/config arrives on thread w: set_watch_urls cleans the list
\* and _save_urls opens urls.json for writing, which truncates it
SetOpen(w) ==
    /\ writers[w].pc = "idle"
    /\ \E urls \in RaceUrlLists :
          LET kept    == CleanUrls(urls)
              cleaned == IF kept = <<>> THEN DEFAULT_URLS ELSE kept
          IN  writers' = [writers EXCEPT ![w] =
                             [pc |-> "writing", urls |-> urls, cleaned |-> cleaned,
                              before |-> _load_urls(urls_file),
                              text |-> json_dump(cleaned), pos |-> 0]]
    /\ urls_file' = [exists |-> TRUE, text |-> <<>>]
    /\ UNCHANGED <<sched, ret, last_saved, startups>>
    /\ UNCHANGED <<scoreVars, anaVars, genVars, predVars, cmpVars>>

\* thread w flushes the next part of its text at its own position
SetWrite(w) ==
    /\ writers[w].pc = "writing"
    /\ writers[w].pos < Len(writers[w].text)
    /\ \E k \in 1..(Len(writers[w].text) - writers[w].pos) :
          /\ urls_file' = [exists |-> TRUE,
                           text |-> WriteAt(urls_file.text, writers[w].pos,
                                            SubSeq(writers[w].text, writers[w].pos + 1,
                                                   writers[w].pos + k))]
          /\ writers' = [writers EXCEPT ![w].pos = writers[w].pos + k]
    /\ UNCHANGED <<sched, ret, last_saved, startups>>
    /\ UNCHANGED <<scoreVars, anaVars, genVars, predVars, cmpVars>>

\* thread w has written all of its text: the file is closed and
\* monitor_set_config returns {"saved_urls": cleaned, "count": len(cleaned)}
SetReturn(w) ==
    /\ writers[w].pc = "writing"
    /\ writers[w].pos = Len(writers[w].text)
    /\ writers' = [writers EXCEPT ![w].pc = "done"]
    /\ last_saved' = [kind |-> "list", value |-> writers[w].cleaned]
    /\ ret' = Op("set", "returned", writers[w].urls,
                 [saved_urls |-> writers[w].cleaned, count |-> Len(writers[w].cleaned)])
    /\ UNCHANGED <<urls_file, sched, startups>>
    /\ UNCHANGED <<scoreVars, anaVars, genVars, predVars, cmpVars>>

RaceNext ==
    \/ Startup
    \/ TimerFire
    \/ MonitorRunNow
    \/ MonitorGetConfig
    \/ \E w \in WriterIds : SetOpen(w)
    \/ \E w \in WriterIds : SetWrite(w)
    \/ \E w \in WriterIds : SetReturn(w)

SpecRace ==
    /\ RaceInit
    /\ [][RaceNext]_vars

\* the last call that returned is a get_watch_urls or a monitor_once call
ReaderReturned == ret.op \in {"get", "run_now", "timer"}

\* that call observed the list L: get_watch_urls returned it, monitor_once
\* reported on exactly its URLs
Observed(L) ==
    IF ret.op = "get" THEN ret.value.urls = L
    ELSE DOMAIN ret.value = {L[i] : i \in 1..Len(L)}

\* a read beside one set_watch_urls call sees the list saved before that
\* call or the cleaned list the call is saving
ReadSeesOldOrNew ==
    \A w \in WriterIds :
        (/\ writers[w].pc = "writing"
         /\ \A v \in WriterIds \ {w} : writers[v].pc = "idle"
         /\ ReaderReturned)
        => (Observed(writers[w].before) \/ Observed(writers[w].cleaned))

\* after both set_watch_urls calls returned, get_watch_urls returns the
\* cleaned list of one of them
LastWriterWins ==
    (\A w \in WriterIds : writers[w].pc = "done")
        => \E w \in WriterIds : get_watch_urls(urls_file) = writers[w].cleaned

\* C15: a get_watch_urls or monitor_once call that runs concurrently with a
\* set_watch_urls call observes either the list saved before that call or
\* the cleaned list being saved, never a third value such as DEFAULT_URLS
\* or a partial list; and after two concurrent set_watch_urls calls have
\* both returned, get_watch_urls returns one of their two cleaned lists.
C15_RacingReadsAndWrites == ReadSeesOldOrNew /\ LastWriterWins

====
